---- MODULE Spec2Model ----
(***************************************************************************)
(* Model of assisting-pc-gamers/quality_scorer.py: the Content Analyzer,   *)
(* the six factor scorers, QualityScorer.calculate_score and               *)
(* compare_solutions, and SolutionRanker.rank_solutions with its labels    *)
(* and generate_summary_report; and of the rate limiter of                 *)
(* assisting-pc-gamers/search_forums.py, ForumSearcher._check_rate_limit.  *)
(*                                                                         *)
(* Text is a sequence of characters, each a string.  Time is counted in   *)
(* whole days; the clock `now` is what datetime.now() returns.  A score is *)
(* an exact rational kept as an integer number of 1/ScoreUnit points (the  *)
(* source computes in binary floating point).  The rate limiter has a      *)
(* clock of its own, `seconds`, counted in whole seconds.                  *)
(***************************************************************************)
EXTENDS Integers, Sequences, FiniteSets, TLC

VARIABLES
    now,          \* datetime.now(), in days since the start of the run
    ticks,        \* how many times the clock has advanced
    rec,          \* the Metrics Record handed to a scorer directly
    calls,        \* the results of the direct calls of a method so far
    solutions,    \* rank_solutions: the batch of external records
    pc,           \* rank_solutions: the statement the call stands at
    metrics_list, \* rank_solutions: the (metrics, content) pairs built so far
    ranked,       \* compare_solutions: the list of scored entries
    idx,          \* the index of the current loop
    cur,          \* compare_solutions: the locals of the current iteration
    raised,       \* the exception that left rank_solutions, or "none"
    seconds,      \* ForumSearcher: datetime.now(), in seconds since construction
    rate_limits   \* ForumSearcher: calls and reset_time of every platform

vars == <<now, ticks, rec, calls, solutions, pc, metrics_list, ranked, idx, cur, raised,
          seconds, rate_limits>>

-----------------------------------------------------------------------------
(* Bounds of the model *)

MaxTicks == 2
MaxCalls == 2
MaxBatch == 3

-----------------------------------------------------------------------------
(* Text helpers *)

Min(a, b) == IF a < b THEN a ELSE b
Max(a, b) == IF a > b THEN a ELSE b
Range(s) == {s[k] : k \in 1..Len(s)}

UpperChars == <<"A","B","C","D","E","F","G","H","I","J","K","L","M",
                "N","O","P","Q","R","S","T","U","V","W","X","Y","Z">>
LowerChars == <<"a","b","c","d","e","f","g","h","i","j","k","l","m",
                "n","o","p","q","r","s","t","u","v","w","x","y","z">>
Digits == {"0","1","2","3","4","5","6","7","8","9"}
Whitespace == {" ", "\n", "\t"}
\* the grave accent, which a string of this notation cannot hold
Backtick == "grave"

LowerMap ==
    [c \in Range(UpperChars) |->
        LowerChars[CHOOSE k \in 1..Len(UpperChars) : UpperChars[k] = c]]

LowerChar(c) == IF c \in DOMAIN LowerMap THEN LowerMap[c] ELSE c

\* str.lower()
Lower(s) == [k \in 1..Len(s) |-> LowerChar(s[k])]

\* sub occurs in s starting at position k
MatchAt(s, sub, k) ==
    /\ k >= 1
    /\ k + Len(sub) - 1 <= Len(s)
    /\ \A j \in 1..Len(sub) : s[k + j - 1] = sub[j]

\* `sub in s`
Contains(s, sub) == \E k \in 1..(Len(s) + 1) : MatchAt(s, sub, k)

-----------------------------------------------------------------------------
(* The Metrics Record *)

NoDate == [kind |-> "none", t |-> 0]
Naive(t) == [kind |-> "naive", t |-> t]
Aware(t) == [kind |-> "aware", t |-> t]

SolutionMetrics ==
    [author_reputation |-> 0, author_post_count |-> 0, author_badges |-> <<>>,
     upvotes |-> 0, downvotes |-> 0, reply_count |-> 0, view_count |-> 0,
     word_count |-> 0, has_steps |-> FALSE, has_screenshots |-> FALSE,
     has_video |-> FALSE, code_blocks |-> 0,
     confirmed_working |-> 0, contradicted |-> FALSE, is_solved |-> FALSE,
     dev_response |-> FALSE, mod_endorsed |-> FALSE,
     post_date |-> NoDate, last_updated |-> NoDate, game_version |-> NoDate,
     platform |-> <<"u","n","k","n","o","w","n">>]

-----------------------------------------------------------------------------
(* QualityScorer: the tables.  Weights and multipliers are in hundredths. *)

\* the variant with the weights of two factors exchanged
WEIGHTS_swapped ==
    [author_credibility |-> 20, community_validation |-> 25,
     content_quality |-> 20, official_endorsement |-> 10,
     recency |-> 15, detail_level |-> 10]

WEIGHTS ==
    [author_credibility |-> 20, community_validation |-> 25,
     content_quality |-> 20, official_endorsement |-> 15,
     recency |-> 10, detail_level |-> 10]

PLATFORM_TRUST ==
    << [key |-> <<"s","t","e","a","m">>, mult |-> 110],
       [key |-> <<"r","e","d","d","i","t">>, mult |-> 100],
       [key |-> <<"g","a","m","e","f","a","q","s">>, mult |-> 95],
       [key |-> <<"d","i","s","c","o","r","d">>, mult |-> 105],
       [key |-> <<"y","o","u","t","u","b","e">>, mult |-> 90],
       [key |-> <<"w","i","k","i">>, mult |-> 85],
       [key |-> <<"f","o","r","u","m">>, mult |-> 95] >>

badge_scores ==
    << [key |-> <<"m","o","d","e","r","a","t","o","r">>, points |-> 20],
       [key |-> <<"d","e","v","e","l","o","p","e","r">>, points |-> 25],
       [key |-> <<"v","e","r","i","f","i","e","d">>, points |-> 15],
       [key |-> <<"h","e","l","p","e","r">>, points |-> 10],
       [key |-> <<"v","e","t","e","r","a","n">>, points |-> 10],
       [key |-> <<"e","x","p","e","r","t">>, points |-> 15],
       [key |-> <<"m","v","p">>, points |-> 20],
       [key |-> <<"t","r","u","s","t","e","d">>, points |-> 15] >>

\* one point of score, in the model's integer units:
\* weights in 1/100, multipliers in 1/100, the penalty in 1/10
ScoreUnit == 100 * 100 * 10

-----------------------------------------------------------------------------
(* The six factor scorers *)

\* the inner loop over badge_scores.items(), from entry k on: the first key
\* that is a substring of the lower-cased badge gives its points, then break
\* the variant without the break: every matching key adds its points
RECURSIVE FirstKeyPoints_no_break(_, _)
FirstKeyPoints_no_break(badge_lower, k) ==
    IF k > Len(badge_scores) THEN 0
    ELSE (IF Contains(badge_lower, badge_scores[k].key)
          THEN badge_scores[k].points ELSE 0)
         + FirstKeyPoints_no_break(badge_lower, k + 1)

\* the variant that walks the table from its end: the last matching key wins
RECURSIVE FirstKeyPoints_last_match(_, _)
FirstKeyPoints_last_match(badge_lower, k) ==
    LET j == Len(badge_scores) + 1 - k
    IN  IF k > Len(badge_scores) THEN 0
        ELSE IF Contains(badge_lower, badge_scores[j].key) THEN badge_scores[j].points
        ELSE FirstKeyPoints_last_match(badge_lower, k + 1)

RECURSIVE FirstKeyPoints(_, _)
FirstKeyPoints(badge_lower, k) ==
    IF k > Len(badge_scores) THEN 0
    ELSE IF Contains(badge_lower, badge_scores[k].key) THEN badge_scores[k].points
    ELSE FirstKeyPoints(badge_lower, k + 1)

BadgePoints(badge) == FirstKeyPoints(Lower(badge), 1)

RECURSIVE SumBadges(_)
SumBadges(badges) ==
    IF badges = <<>> THEN 0
    ELSE BadgePoints(Head(badges)) + SumBadges(Tail(badges))

AuthorRaw(m) ==
    (IF m.author_reputation > 10000 THEN 40
     ELSE IF m.author_reputation > 5000 THEN 35
     ELSE IF m.author_reputation > 1000 THEN 30
     ELSE IF m.author_reputation > 500 THEN 20
     ELSE IF m.author_reputation > 100 THEN 10
     ELSE 0)
    + (IF m.author_post_count > 1000 THEN 20
       ELSE IF m.author_post_count > 500 THEN 15
       ELSE IF m.author_post_count > 100 THEN 10
       ELSE IF m.author_post_count > 50 THEN 5
       ELSE 0)
    + SumBadges(m.author_badges)

\* the variant without the final min(score, 100)
score_author_credibility_unclamped(m) == AuthorRaw(m)

score_author_credibility(m) == Min(AuthorRaw(m), 100)

\* ratio = upvotes / max(1, upvotes + downvotes), compared with p/100
RatioAbove(m, p) == 100 * m.upvotes > p * Max(1, m.upvotes + m.downvotes)

\* the variant that gives a post nobody voted for the middle of the ladder
score_community_validation_unvoted_neutral(m) ==
    LET ratio_pts ==
            IF m.upvotes > 0
            THEN IF RatioAbove(m, 95) THEN 30
                 ELSE IF RatioAbove(m, 85) THEN 25
                 ELSE IF RatioAbove(m, 75) THEN 20
                 ELSE IF RatioAbove(m, 65) THEN 15
                 ELSE 10
            ELSE 15
        upvote_pts ==
            IF m.upvotes > 100 THEN 20
            ELSE IF m.upvotes > 50 THEN 15
            ELSE IF m.upvotes > 20 THEN 10
            ELSE IF m.upvotes > 10 THEN 5
            ELSE 0
        confirm_pts == Min(m.confirmed_working * 10, 30)
        reply_pts ==
            IF m.reply_count > 20 THEN 15
            ELSE IF m.reply_count > 10 THEN 10
            ELSE IF m.reply_count > 5 THEN 5
            ELSE 0
        view_pts ==
            IF m.view_count > 10000 THEN 5
            ELSE IF m.view_count > 1000 THEN 3
            ELSE 0
    IN  Min(ratio_pts + upvote_pts + confirm_pts + reply_pts + view_pts, 100)

score_community_validation(m) ==
    LET ratio_pts ==
            IF m.upvotes > 0
            THEN IF RatioAbove(m, 95) THEN 30
                 ELSE IF RatioAbove(m, 85) THEN 25
                 ELSE IF RatioAbove(m, 75) THEN 20
                 ELSE IF RatioAbove(m, 65) THEN 15
                 ELSE 10
            ELSE 0
        upvote_pts ==
            IF m.upvotes > 100 THEN 20
            ELSE IF m.upvotes > 50 THEN 15
            ELSE IF m.upvotes > 20 THEN 10
            ELSE IF m.upvotes > 10 THEN 5
            ELSE 0
        confirm_pts == Min(m.confirmed_working * 10, 30)
        reply_pts ==
            IF m.reply_count > 20 THEN 15
            ELSE IF m.reply_count > 10 THEN 10
            ELSE IF m.reply_count > 5 THEN 5
            ELSE 0
        view_pts ==
            IF m.view_count > 10000 THEN 5
            ELSE IF m.view_count > 1000 THEN 3
            ELSE 0
    IN  Min(ratio_pts + upvote_pts + confirm_pts + reply_pts + view_pts, 100)

score_content_quality(m) ==
    LET steps_pts == IF m.has_steps THEN 25 ELSE 0
        shot_pts == IF m.has_screenshots THEN 20 ELSE 0
        video_pts == IF m.has_video THEN 15 ELSE 0
        code_pts == IF m.code_blocks > 0 THEN Min(m.code_blocks * 5, 15) ELSE 0
        len_pts ==
            IF 100 <= m.word_count /\ m.word_count <= 500 THEN 15
            ELSE IF 50 <= m.word_count /\ m.word_count < 100 THEN 10
            ELSE IF 500 < m.word_count /\ m.word_count <= 1000 THEN 10
            ELSE IF m.word_count > 1000 THEN 5
            ELSE 0
        solved_pts == IF m.is_solved THEN 10 ELSE 0
    IN  Min(steps_pts + shot_pts + video_pts + code_pts + len_pts + solved_pts, 100)

score_official_endorsement(m) ==
    Min((IF m.dev_response THEN 50 ELSE 0)
        + (IF m.mod_endorsed THEN 30 ELSE 0)
        + (IF m.is_solved THEN 20 ELSE 0), 100)

\* `datetime.now() - metrics.post_date` raises TypeError when post_date is
\* offset-aware: datetime.now() is offset-naive
SubtractRaises(d) == d.kind = "aware"

\* the variant that puts a record without a date into the oldest bucket
score_recency_no_default(m, t) ==
    IF m.post_date.kind = "none" THEN 20
    ELSE LET age == t - m.post_date.t
         IN  IF age < 7 THEN 100
             ELSE IF age < 30 THEN 90
             ELSE IF age < 90 THEN 75
             ELSE IF age < 180 THEN 60
             ELSE IF age < 365 THEN 40
             ELSE 20

\* the variant whose upper edges belong to the younger band
score_recency_inclusive(m, t) ==
    IF m.post_date.kind = "none" THEN 50
    ELSE LET age == t - m.post_date.t
         IN  IF age <= 7 THEN 100
             ELSE IF age <= 30 THEN 90
             ELSE IF age <= 90 THEN 75
             ELSE IF age <= 180 THEN 60
             ELSE IF age <= 365 THEN 40
             ELSE 20

\* defined when post_date is absent or naive; t is datetime.now()
score_recency(m, t) ==
    IF m.post_date.kind = "none" THEN 50
    ELSE LET age == t - m.post_date.t
         IN  IF age < 7 THEN 100
             ELSE IF age < 30 THEN 90
             ELSE IF age < 90 THEN 75
             ELSE IF age < 180 THEN 60
             ELSE IF age < 365 THEN 40
             ELSE 20

score_detail_level(m) ==
    LET len_pts ==
            IF m.word_count > 200 THEN 30
            ELSE IF m.word_count > 100 THEN 20
            ELSE IF m.word_count > 50 THEN 10
            ELSE 0
        steps_pts == IF m.has_steps THEN 30 ELSE 0
        aid_pts == IF m.has_screenshots \/ m.has_video THEN 20 ELSE 0
        code_pts == IF m.code_blocks > 0 THEN 20 ELSE 0
    IN  Min(len_pts + steps_pts + aid_pts + code_pts, 100)

\* the `scores` dictionary of calculate_score
SubScores(m, t) ==
    [author_credibility |-> score_author_credibility(m),
     community_validation |-> score_community_validation(m),
     content_quality |-> score_content_quality(m),
     official_endorsement |-> score_official_endorsement(m),
     recency |-> score_recency(m, t),
     detail_level |-> score_detail_level(m)]

Factors == DOMAIN WEIGHTS

\* sum(scores[factor] * WEIGHTS[factor] for factor in scores), in 1/100
WeightedSumOf(scores) ==
    scores.author_credibility * WEIGHTS.author_credibility
    + scores.community_validation * WEIGHTS.community_validation
    + scores.content_quality * WEIGHTS.content_quality
    + scores.official_endorsement * WEIGHTS.official_endorsement
    + scores.recency * WEIGHTS.recency
    + scores.detail_level * WEIGHTS.detail_level

WeightedSum(m, t) == WeightedSumOf(SubScores(m, t))

\* the variant that looks the platform up without lower()
PlatformMult_case_sensitive(platform) ==
    LET hits == {k \in 1..Len(PLATFORM_TRUST) : PLATFORM_TRUST[k].key = platform}
    IN  IF hits = {} THEN 100 ELSE PLATFORM_TRUST[CHOOSE k \in hits : TRUE].mult

\* PLATFORM_TRUST.get(metrics.platform.lower(), 1.0), in 1/100
PlatformMult(platform) ==
    LET p == Lower(platform)
        hits == {k \in 1..Len(PLATFORM_TRUST) : PLATFORM_TRUST[k].key = p}
    IN  IF hits = {} THEN 100 ELSE PLATFORM_TRUST[CHOOSE k \in hits : TRUE].mult

\* lines 96-102: total_score after the multiplier and the penalty, in
\* 1/ScoreUnit, from the scores dictionary
TotalOf(scores, m) ==
    WeightedSumOf(scores) * PlatformMult(m.platform)
        * (IF m.contradicted THEN 8 ELSE 10)

\* total_score before the final clamp
TotalScore(m, t) == TotalOf(SubScores(m, t), m)

\* the variant without the final clamp
ScoreOf_unclamped(scores, m) == TotalOf(scores, m)

\* the variant that clamps before it applies the contradiction penalty
ScoreOf_clamp_first(scores, m) ==
    (Min(Max(WeightedSumOf(scores) * PlatformMult(m.platform) * 10, 0), 100 * ScoreUnit)
        * (IF m.contradicted THEN 8 ELSE 10)) \div 10

\* lines 92-104: the score, from the scores dictionary
ScoreOf(scores, m) == Min(Max(TotalOf(scores, m), 0), 100 * ScoreUnit)

\* calculate_score when no sub-scorer raises
calculate_score(m, t) == ScoreOf(SubScores(m, t), m)

\* calculate_score raises (in _score_recency)
ScoreRaises(m) == SubtractRaises(m.post_date)

-----------------------------------------------------------------------------
(* QualityScorer.analyze_content *)

\* len(content.split()): the maximal runs of non-whitespace characters
WordCount(s) ==
    Cardinality({k \in 1..Len(s) :
        /\ s[k] \notin Whitespace
        /\ (k = 1 \/ s[k - 1] \in Whitespace)})

\* len(re.findall(sub, s)) for a literal sub: the non-overlapping
\* occurrences, scanning from position k
RECURSIVE CountFrom(_, _, _)
CountFrom(s, sub, k) ==
    LET hits == {j \in k..Len(s) : MatchAt(s, sub, j)}
    IN  IF hits = {} THEN 0
        ELSE LET first == CHOOSE j \in hits : \A other \in hits : j <= other
             IN  1 + CountFrom(s, sub, first + Len(sub))

\* the variant whose pattern leaves the digits optional: any full stop
HasNumbered_any_dot(s) ==
    \E k \in 1..Len(s) : s[k] = "."

\* re.search(r'\d+\.', content)
HasNumbered(s) ==
    \E k \in 1..(Len(s) - 1) : s[k] \in Digits /\ s[k + 1] = "."

\* re.search(r'Step \d+', content, re.IGNORECASE); low is content lower-cased
HasStepN(low) ==
    \E k \in 1..Len(low) :
        /\ MatchAt(low, <<"s","t","e","p"," ">>, k)
        /\ k + 5 <= Len(low)
        /\ low[k + 5] \in Digits

\* re.search(r'First.*Second.*Third', content, re.IGNORECASE): `.` matches
\* any character but a newline (no re.DOTALL)
HasFirstSecondThird(low) ==
    \E a \in 1..Len(low) :
        /\ MatchAt(low, <<"f","i","r","s","t">>, a)
        /\ \E b \in (a + 5)..Len(low) :
            /\ MatchAt(low, <<"s","e","c","o","n","d">>, b)
            /\ \E c \in (b + 6)..Len(low) :
                /\ MatchAt(low, <<"t","h","i","r","d">>, c)
                /\ \A k \in (a + 5)..(c - 1) : low[k] # "\n"

image_indicators ==
    { <<"s","c","r","e","e","n","s","h","o","t">>, <<"i","m","a","g","e">>,
      <<".","p","n","g">>, <<".","j","p","g">>, <<"!","[">> }

video_indicators ==
    { <<"v","i","d","e","o">>, <<"y","o","u","t","u","b","e">>,
      <<"y","o","u","t","u",".","b","e">>, <<"t","w","i","t","c","h">> }

confirmation_phrases ==
    << <<"t","h","i","s"," ","w","o","r","k","e","d">>,
       <<"w","o","r","k","s"," ","f","o","r"," ","m","e">>,
       <<"c","a","n"," ","c","o","n","f","i","r","m">>,
       <<"s","o","l","v","e","d"," ","m","y"," ","p","r","o","b","l","e","m">>,
       <<"f","i","x","e","d"," ","i","t">>,
       <<"t","h","a","n","k","s"," ","t","h","i","s"," ","h","e","l","p","e","d">> >>

warning_phrases ==
    { <<"b","e"," ","c","a","r","e","f","u","l">>, <<"w","a","r","n","i","n","g">>,
      <<"c","a","u","t","i","o","n">>, <<"i","m","p","o","r","t","a","n","t">>,
      <<"m","a","k","e"," ","s","u","r","e">>,
      <<"d","o","n","'","t"," ","f","o","r","g","e","t">>,
      <<"b","a","c","k","u","p">> }

RECURSIVE CountPhrases(_, _)
CountPhrases(low, phrases) ==
    IF phrases = <<>> THEN 0
    ELSE CountFrom(low, Head(phrases), 1) + CountPhrases(low, Tail(phrases))

\* the analysis of content, whose lower-cased form is low
AnalyzeLower(content, low) ==
    [word_count |-> WordCount(content),
     has_steps |-> HasNumbered(content) \/ HasStepN(low) \/ HasFirstSecondThird(low),
     has_screenshots |-> \E ind \in image_indicators : Contains(low, ind),
     has_video |-> \E ind \in video_indicators : Contains(low, ind),
     code_blocks |-> CountFrom(content, <<Backtick, Backtick, Backtick>>, 1),
     confirmed_working |-> CountPhrases(low, confirmation_phrases),
     has_warnings |-> \E phrase \in warning_phrases : Contains(low, phrase)]

analyze_content(content) == AnalyzeLower(content, Lower(content))

-----------------------------------------------------------------------------
(* QualityScorer.compare_solutions and its helpers *)

\* the variant that also takes the count of confirmation phrases
Backfill_with_confirmations(m, a) ==
    [m EXCEPT !.word_count = a.word_count,
              !.has_steps = a.has_steps,
              !.has_screenshots = a.has_screenshots,
              !.has_video = a.has_video,
              !.code_blocks = a.code_blocks,
              !.confirmed_working = a.confirmed_working]

\* the variant that leaves has_video as it was
Backfill_without_video(m, a) ==
    [m EXCEPT !.word_count = a.word_count,
              !.has_steps = a.has_steps,
              !.has_screenshots = a.has_screenshots,
              !.code_blocks = a.code_blocks]

\* lines 375-379: the content facet is overwritten with the analysis
Backfill(m, a) ==
    [m EXCEPT !.word_count = a.word_count,
              !.has_steps = a.has_steps,
              !.has_screenshots = a.has_screenshots,
              !.has_video = a.has_video,
              !.code_blocks = a.code_blocks]

\* the items of s that are kept, in order
RECURSIVE Keep(_)
Keep(items) ==
    IF items = <<>> THEN <<>>
    ELSE (IF Head(items).on THEN <<Head(items).text>> ELSE <<>>) \o Keep(Tail(items))

identify_strengths(m) ==
    Keep(<< [on |-> m.dev_response, text |-> <<"Developer confirmed">>],
            [on |-> m.is_solved, text |-> <<"Marked as solution">>],
            [on |-> m.confirmed_working > 2,
             text |-> <<"users confirmed working", m.confirmed_working>>],
            [on |-> m.has_steps, text |-> <<"Step-by-step instructions">>],
            [on |-> m.has_screenshots \/ m.has_video,
             text |-> <<"Visual aids included">>],
            [on |-> m.upvotes > 50, text |-> <<"Highly upvoted", m.upvotes>>],
            [on |-> m.author_reputation > 5000, text |-> <<"Trusted author">>] >>)

\* defined when post_date is absent or naive; t is datetime.now()
identify_weaknesses(m, t) ==
    Keep(<< [on |-> m.contradicted, text |-> <<"Has contradicting replies">>],
            [on |-> 10 * m.downvotes > 3 * m.upvotes,
             text |-> <<"Significant downvotes">>],
            [on |-> m.post_date.kind # "none" /\ t - m.post_date.t > 365,
             text |-> <<"Over 1 year old">>],
            [on |-> m.word_count < 50, text |-> <<"Very brief explanation">>],
            [on |-> ~m.has_steps /\ m.word_count > 200,
             text |-> <<"Lacks structure">>] >>)

PreviewLen == 200

\* content[:200] + '...' if len(content) > 200 else content
content_preview(content) ==
    IF Len(content) > PreviewLen
    THEN SubSeq(content, 1, PreviewLen) \o <<".",".",".">>
    ELSE content

Reverse(s) == [k \in 1..Len(s) |-> s[Len(s) + 1 - k]]

\* e goes behind every entry whose score is not greater than its own
RECURSIVE InsertAscending(_, _)
InsertAscending(s, e) ==
    IF s = <<>> THEN <<e>>
    ELSE IF Head(s).score <= e.score
         THEN <<Head(s)>> \o InsertAscending(Tail(s), e)
         ELSE <<e>> \o s

\* a stable sort by ascending score
RECURSIVE SortAscending(_)
SortAscending(s) ==
    IF s = <<>> THEN <<>>
    ELSE InsertAscending(SortAscending(SubSeq(s, 1, Len(s) - 1)), s[Len(s)])

\* the variant that forgets reverse=True
SortByScore_ascending(s) == SortAscending(s)

\* the variant that sorts in ascending order and reverses the result
SortByScore_unstable(s) == Reverse(SortAscending(s))

\* the variant that keeps one entry per score, the first in sorted order
SortByScore_one_per_score(s) ==
    LET sorted == Reverse(SortAscending(Reverse(s)))
        kept == {k \in 1..Len(sorted) :
                    k = 1 \/ sorted[k - 1].score # sorted[k].score}
    IN  [i \in 1..Cardinality(kept) |->
            sorted[CHOOSE k \in kept : Cardinality({j \in kept : j <= k}) = i]]

\* list.sort(key=score, reverse=True): the list is reversed, sorted stably
\* in ascending order and reversed again, which keeps equal scores in their
\* original order
SortByScore(s) == Reverse(SortAscending(Reverse(s)))

-----------------------------------------------------------------------------
(* SolutionRanker *)

Has(d, k) == k \in DOMAIN d

\* datetime.fromisoformat raises ValueError
ParseRaises(date) == date.type = "str" /\ date.form = "bad"

\* the datetime a date value stands for: datetime.fromisoformat of a string,
\* the value itself otherwise
AsDatetime(date) ==
    IF date.form = "offset" THEN Aware(date.t) ELSE Naive(date.t)

\* the variant whose mapping also knows the key 'contradicted'
MapFields_with_contradicted(d) ==
    LET m1 == IF Has(d, "author_reputation")
              THEN [SolutionMetrics EXCEPT !.author_reputation = d.author_reputation]
              ELSE SolutionMetrics
        m2 == IF Has(d, "upvotes") THEN [m1 EXCEPT !.upvotes = d.upvotes] ELSE m1
        m3 == IF Has(d, "score") THEN [m2 EXCEPT !.upvotes = d.score] ELSE m2
        m4 == IF Has(d, "downvotes") THEN [m3 EXCEPT !.downvotes = d.downvotes] ELSE m3
        m5 == IF Has(d, "replies") THEN [m4 EXCEPT !.reply_count = d.replies] ELSE m4
        m6 == IF Has(d, "is_solved") THEN [m5 EXCEPT !.is_solved = d.is_solved] ELSE m5
        m7 == IF Has(d, "platform") THEN [m6 EXCEPT !.platform = d.platform] ELSE m6
        m8 == IF Has(d, "has_dev_response")
              THEN [m7 EXCEPT !.dev_response = d.has_dev_response] ELSE m7
        m9 == IF Has(d, "contradicted")
              THEN [m8 EXCEPT !.contradicted = d.contradicted] ELSE m8
    IN  IF Has(d, "author_badges")
        THEN [m9 EXCEPT !.author_badges = d.author_badges] ELSE m9

\* lines 487-489: the keys of field_mapping, in its order
MapFields(d) ==
    LET m1 == IF Has(d, "author_reputation")
              THEN [SolutionMetrics EXCEPT !.author_reputation = d.author_reputation]
              ELSE SolutionMetrics
        m2 == IF Has(d, "upvotes") THEN [m1 EXCEPT !.upvotes = d.upvotes] ELSE m1
        m3 == IF Has(d, "score") THEN [m2 EXCEPT !.upvotes = d.score] ELSE m2
        m4 == IF Has(d, "downvotes") THEN [m3 EXCEPT !.downvotes = d.downvotes] ELSE m3
        m5 == IF Has(d, "replies") THEN [m4 EXCEPT !.reply_count = d.replies] ELSE m4
        m6 == IF Has(d, "is_solved") THEN [m5 EXCEPT !.is_solved = d.is_solved] ELSE m5
        m7 == IF Has(d, "platform") THEN [m6 EXCEPT !.platform = d.platform] ELSE m6
        m8 == IF Has(d, "has_dev_response")
              THEN [m7 EXCEPT !.dev_response = d.has_dev_response] ELSE m7
    IN  IF Has(d, "author_badges")
        THEN [m8 EXCEPT !.author_badges = d.author_badges] ELSE m8

\* the variant whose parser takes any string for a timestamp
dict_to_metrics_lenient(d) ==
    IF Has(d, "date")
    THEN [MapFields(d) EXCEPT !.post_date = AsDatetime(d.date)]
    ELSE MapFields(d)

\* lines 491-499: a ValueError of the parser is swallowed
dict_to_metrics(d) ==
    IF Has(d, "date") /\ ~ParseRaises(d.date)
    THEN [MapFields(d) EXCEPT !.post_date = AsDatetime(d.date)]
    ELSE MapFields(d)

\* solution.get('content', '')
ContentOf(d) == IF Has(d, "content") THEN d.content ELSE <<>>

\* the variant whose comparisons are inclusive
get_recommendation_inclusive(score, rank) ==
    IF rank = 0 /\ score >= 80 * ScoreUnit THEN "Highly Recommended"
    ELSE IF rank = 0 /\ score >= 60 * ScoreUnit THEN "Recommended"
    ELSE IF score >= 70 * ScoreUnit THEN "Good Alternative"
    ELSE IF score >= 50 * ScoreUnit THEN "Use with caution"
    ELSE "Last resort"

\* lines 507-516; the labels are named by their first words
get_recommendation(score, rank) ==
    IF rank = 0 /\ score > 80 * ScoreUnit THEN "Highly Recommended"
    ELSE IF rank = 0 /\ score > 60 * ScoreUnit THEN "Recommended"
    ELSE IF score > 70 * ScoreUnit THEN "Good Alternative"
    ELSE IF score > 50 * ScoreUnit THEN "Use with caution"
    ELSE "Last resort"

\* the variant whose lower bounds are exclusive
get_trust_level_exclusive(score) ==
    IF score > 80 * ScoreUnit THEN "Very High"
    ELSE IF score > 65 * ScoreUnit THEN "High"
    ELSE IF score > 50 * ScoreUnit THEN "Moderate"
    ELSE IF score > 35 * ScoreUnit THEN "Low"
    ELSE "Very Low"

get_trust_level(score) ==
    IF score >= 80 * ScoreUnit THEN "Very High"
    ELSE IF score >= 65 * ScoreUnit THEN "High"
    ELSE IF score >= 50 * ScoreUnit THEN "Moderate"
    ELSE IF score >= 35 * ScoreUnit THEN "Low"
    ELSE "Very Low"

-----------------------------------------------------------------------------
(* Metrics Records handed to calculate_score directly: one choice per facet *)

MaxBadges == 2

Repeat(x, n) == [k \in 1..n |-> x]

AuthorFacets ==
    { [author_reputation |-> 0, author_post_count |-> 0, author_badges |-> <<>>],
      [author_reputation |-> 8500, author_post_count |-> 60,
       author_badges |-> << <<"t","r","u","s","t","e","d">> >>] }
    \cup
    { [author_reputation |-> 20000, author_post_count |-> 2000,
       author_badges |-> Repeat(<<"V","e","r","i","f","i","e","d"," ",
                                  "D","e","v","e","l","o","p","e","r">>, n)]
      : n \in 1..MaxBadges }

CommunityFacets ==
    { [upvotes |-> 0, downvotes |-> 0, reply_count |-> 0, view_count |-> 0,
       confirmed_working |-> 0],
      [upvotes |-> 45, downvotes |-> 20, reply_count |-> 8, view_count |-> 1500,
       confirmed_working |-> 1],
      [upvotes |-> 200, downvotes |-> 0, reply_count |-> 30, view_count |-> 20000,
       confirmed_working |-> 3] }

ContentFacets ==
    { [word_count |-> 0, has_steps |-> FALSE, has_screenshots |-> FALSE,
       has_video |-> FALSE, code_blocks |-> 0],
      [word_count |-> 300, has_steps |-> TRUE, has_screenshots |-> TRUE,
       has_video |-> TRUE, code_blocks |-> 3] }

ValidationFacets ==
    { [is_solved |-> FALSE, dev_response |-> FALSE, mod_endorsed |-> FALSE],
      [is_solved |-> TRUE, dev_response |-> TRUE, mod_endorsed |-> TRUE] }

\* ages at the first reading of the clock: none, 6 days, 364 days, and an
\* offset-aware timestamp
TemporalFacets == {NoDate, Naive(0 - 6), Naive(0 - 364), Aware(0 - 10)}

ListedPlatforms == {PLATFORM_TRUST[k].key : k \in 1..Len(PLATFORM_TRUST)}

UnlistedPlatforms ==
    { <<"u","n","k","n","o","w","n">>, <<>>, <<"e","p","i","c">> }

MixedCasePlatforms == { <<"S","t","e","a","m">>, <<"S","T","E","A","M">> }

Platforms == ListedPlatforms \cup UnlistedPlatforms \cup MixedCasePlatforms

MetricsRecords ==
    { [author_reputation |-> a.author_reputation,
       author_post_count |-> a.author_post_count,
       author_badges |-> a.author_badges,
       upvotes |-> c.upvotes, downvotes |-> c.downvotes,
       reply_count |-> c.reply_count, view_count |-> c.view_count,
       word_count |-> q.word_count, has_steps |-> q.has_steps,
       has_screenshots |-> q.has_screenshots, has_video |-> q.has_video,
       code_blocks |-> q.code_blocks,
       confirmed_working |-> c.confirmed_working, contradicted |-> x,
       is_solved |-> v.is_solved, dev_response |-> v.dev_response,
       mod_endorsed |-> v.mod_endorsed,
       post_date |-> d, last_updated |-> NoDate, game_version |-> NoDate,
       platform |-> p]
      : a \in AuthorFacets, c \in CommunityFacets, q \in ContentFacets,
        v \in ValidationFacets, d \in TemporalFacets, p \in Platforms,
        x \in BOOLEAN }

-----------------------------------------------------------------------------
(* External records handed to rank_solutions.  A date value is a datetime  *)
(* object or a string; form says whether it carries a UTC offset, or, for  *)
(* a string, that it cannot be parsed; t is the instant it names.          *)

DateObject(form, t) == [type |-> "datetime", form |-> form, t |-> t]
DateString(form, t) == [type |-> "str", form |-> form, t |-> t]

\* the content of the first example of main(), with its indentation
TextMalenia ==
    <<"\n"," "," "," "," "," "," "," "," "," "," "," "," ","H","e","r","e",
      "'","s"," ","h","o","w"," ","t","o"," ","b","e","a","t"," ","M","a","l",
      "e","n","i","a",":","\n"," "," "," "," "," "," "," "," "," "," "," ",
      " ","\n"," "," "," "," "," "," "," "," "," "," "," "," ","1","."," ",
      "F","i","r","s","t",","," ","e","q","u","i","p"," ","t","h","e"," ","B",
      "l","o","o","d","h","o","u","n","d"," ","S","t","e","p"," ","a","s","h",
      " ","o","f"," ","w","a","r","\n"," "," "," "," "," "," "," "," "," ",
      " "," "," ","2","."," ","U","s","e"," ","a"," ","b","l","e","e","d"," ",
      "w","e","a","p","o","n"," ","l","i","k","e"," ","R","i","v","e","r","s",
      " ","o","f"," ","B","l","o","o","d","\n"," "," "," "," "," "," "," ",
      " "," "," "," "," ","3","."," ","W","h","e","n"," ","s","h","e"," ","d",
      "o","e","s"," ","W","a","t","e","r","f","o","w","l"," ","D","a","n","c",
      "e",","," ","i","m","m","e","d","i","a","t","e","l","y"," ","d","a","s",
      "h"," ","a","w","a","y","\n"," "," "," "," "," "," "," "," "," "," ",
      " "," ","4","."," ","S","t","a","y"," ","c","l","o","s","e"," ","i","n",
      " ","p","h","a","s","e"," ","2"," ","t","o"," ","a","v","o","i","d"," ",
      "h","e","r"," ","d","i","v","e"," ","b","o","m","b","\n"," "," "," ",
      " "," "," "," "," "," "," "," "," ","\n"," "," "," "," "," "," "," ",
      " "," "," "," "," ","T","h","i","s"," ","w","o","r","k","e","d"," ","p",
      "e","r","f","e","c","t","l","y"," ","f","o","r"," ","m","e"," ","a","n",
      "d"," ","5"," ","o","t","h","e","r","s"," ","i","n"," ","t","h","i","s",
      " ","t","h","r","e","a","d","!","\n"," "," "," "," "," "," "," "," ",
      " "," "," "," ">>

TextBrief ==
    <<"J","u","s","t"," ","u","s","e"," ","m","i","m","i","c"," ","t","e","a","r",
      " ","a","n","d"," ","s","p","a","m"," ","m","a","g","i","c","."," ",
      "E","a","s","y",".">>

TextOk == <<"o","k">>

TextRich ==
    <<"S","t","e","p"," ","1"," ","s","e","e"," ","s","c","r","e","e","n","s","h","o","t",
      " ","a","n","d"," ","v","i","d","e","o"," ",
      Backtick, Backtick, Backtick, "x", Backtick, Backtick, Backtick>>

\* the first example of main(): a datetime 10 days back
Example1 ==
    [platform |-> <<"r","e","d","d","i","t">>, content |-> TextMalenia,
     upvotes |-> 156, downvotes |-> 3, replies |-> 23, is_solved |-> TRUE,
     author_reputation |-> 8500, date |-> DateObject("naive", 0 - 10),
     author_badges |-> << <<"t","r","u","s","t","e","d">> >>]

\* the second example of main(): a datetime 60 days back
Example2 ==
    [platform |-> <<"s","t","e","a","m">>, content |-> TextBrief,
     upvotes |-> 45, downvotes |-> 20, replies |-> 8, has_dev_response |-> FALSE,
     author_reputation |-> 200, date |-> DateObject("naive", 0 - 60)]

SampleSolutions ==
    { Example1,
      Example2,
      \* nothing but a text
      [content |-> TextOk],
      \* no content; both names of the upvote count; a date that does not parse
      [upvotes |-> 5, score |-> 200, date |-> DateString("bad", 0)],
      \* the same record without the date
      [upvotes |-> 5, score |-> 200],
      \* a naive ISO string 364 days back
      [content |-> TextOk, date |-> DateString("naive", 0 - 364)],
      \* an ISO string with a UTC offset
      [content |-> TextBrief, upvotes |-> 45,
       date |-> DateString("offset", 0 - 10)],
      \* a developer-confirmed, structured answer, with keys the mapping
      \* does not know
      [platform |-> <<"S","t","e","a","m">>, content |-> TextRich,
       upvotes |-> 200, downvotes |-> 0, replies |-> 30, is_solved |-> TRUE,
       has_dev_response |-> TRUE, author_reputation |-> 20000,
       author_badges |-> << <<"D","e","v","e","l","o","p","e","r">>,
                            <<"M","V","P">>, <<"E","x","p","e","r","t">> >>,
       date |-> DateObject("naive", 0 - 6),
       contradicted |-> TRUE, mod_endorsed |-> TRUE, confirmed_working |-> 5,
       view_count |-> 20000, author_post_count |-> 2000] }

RECURSIVE SeqsUpTo(_, _)
SeqsUpTo(S, n) ==
    IF n = 0 THEN {<<>>}
    ELSE LET shorter == SeqsUpTo(S, n - 1)
         IN  shorter \cup {Append(q, x) : q \in shorter, x \in S}

Batches == SeqsUpTo(SampleSolutions, MaxBatch)

\* analyze_content is a pure function of the text: its values on the texts
\* of the sample, computed once
AnalysisTable ==
    [content \in {ContentOf(d) : d \in SampleSolutions} |-> analyze_content(content)]

ContentAnalysis(content) ==
    IF content \in DOMAIN AnalysisTable
    THEN AnalysisTable[content]
    ELSE analyze_content(content)

-----------------------------------------------------------------------------
(* The clock *)

\* rate_limits while no ForumSearcher is constructed
NoSearcher == <<>>

\* time passes between any two statements
Tick ==
    /\ ticks < MaxTicks
    /\ now' = now + 1
    /\ ticks' = ticks + 1
    /\ UNCHANGED <<rec, calls, solutions, pc, metrics_list, ranked, idx, cur, raised, seconds, rate_limits>>

-----------------------------------------------------------------------------
(* Direct calls of QualityScorer.calculate_score on one Metrics Record *)

\* the locals of compare_solutions between two iterations
NoLocals == [score |-> 0, scores |-> [f \in Factors |-> 0]]

\* the locals once calculate_score has returned
Locals(m, scores) == [score |-> ScoreOf(scores, m), scores |-> scores]

\* a key an entry does not have yet
Unset == "unset"

\* a call that returns, with the scores dictionary it built
Returns(m, t, scores) ==
    [at |-> t, raised |-> FALSE, score |-> ScoreOf(scores, m),
     scores |-> scores, platform_mult |-> PlatformMult(m.platform)]

\* one call: what it returns, or that it raised
CallResult(m, t) ==
    IF ScoreRaises(m)
    THEN [at |-> t, raised |-> TRUE, score |-> 0,
          scores |-> [f \in Factors |-> 0], platform_mult |-> 0]
    ELSE Returns(m, t, SubScores(m, t))

ScoreCall ==
    /\ Len(calls) < MaxCalls
    /\ calls' = Append(calls, CallResult(rec, now))
    /\ UNCHANGED <<now, ticks, rec, solutions, pc, metrics_list, ranked, idx, cur, raised, seconds, rate_limits>>

InitScore ==
    /\ now = 0
    /\ ticks = 0
    /\ rec \in MetricsRecords
    /\ calls = <<>>
    /\ solutions = <<>>
    /\ pc = "idle"
    /\ metrics_list = <<>>
    /\ ranked = <<>>
    /\ idx = 0
    /\ cur = NoLocals
    /\ raised = "none"
    /\ seconds = 0
    /\ rate_limits = NoSearcher

NextScore == Tick \/ ScoreCall

SpecScore == InitScore /\ [][NextScore]_vars

-----------------------------------------------------------------------------
(* SolutionRanker.rank_solutions, statement by statement.  The Metrics     *)
(* Record of candidate k is the object metrics_list[k].metrics; an entry   *)
(* of `ranked` refers to it by obj = k.                                    *)

\* lines 453-456: one iteration of the conversion loop
Convert ==
    /\ pc = "convert"
    /\ idx <= Len(solutions)
    /\ metrics_list' = Append(metrics_list,
            [metrics |-> dict_to_metrics(solutions[idx]),
             content |-> ContentOf(solutions[idx])])
    /\ idx' = idx + 1
    /\ UNCHANGED <<now, ticks, rec, calls, solutions, pc, ranked, cur, raised, seconds, rate_limits>>

\* line 459 and line 368: compare_solutions is entered
CallCompare ==
    /\ pc = "convert"
    /\ idx > Len(solutions)
    /\ pc' = "score"
    /\ idx' = 1
    /\ ranked' = <<>>
    /\ UNCHANGED <<now, ticks, rec, calls, solutions, metrics_list, cur, raised, seconds, rate_limits>>

\* the variant that analyses the content of the candidate before the
\* current one
AnalyzeAndScore_previous_content ==
    /\ pc = "score"
    /\ idx <= Len(metrics_list)
    /\ LET content == metrics_list[Max(idx - 1, 1)].content
           m == Backfill(metrics_list[idx].metrics, ContentAnalysis(content))
       IN  /\ metrics_list' = [metrics_list EXCEPT ![idx].metrics = m]
           /\ IF ScoreRaises(m)
              THEN /\ raised' = "TypeError"
                   /\ pc' = "raised"
                   /\ cur' = cur
              ELSE /\ raised' = raised
                   /\ pc' = "append"
                   /\ cur' = Locals(m, SubScores(m, now))
    /\ UNCHANGED <<now, ticks, rec, calls, solutions, ranked, idx, seconds, rate_limits>>

\* lines 370-382: the content is analysed, the record backfilled and scored;
\* a TypeError of the scorer leaves compare_solutions and rank_solutions
AnalyzeAndScore ==
    /\ pc = "score"
    /\ idx <= Len(metrics_list)
    /\ LET content == metrics_list[idx].content
           m == Backfill(metrics_list[idx].metrics, ContentAnalysis(content))
       IN  /\ metrics_list' = [metrics_list EXCEPT ![idx].metrics = m]
           /\ IF ScoreRaises(m)
              THEN /\ raised' = "TypeError"
                   /\ pc' = "raised"
                   /\ cur' = cur
              ELSE /\ raised' = raised
                   /\ pc' = "append"
                   /\ cur' = Locals(m, SubScores(m, now))
    /\ UNCHANGED <<now, ticks, rec, calls, solutions, ranked, idx, seconds, rate_limits>>

\* lines 384-390: the entry is appended
AppendEntry ==
    /\ pc = "append"
    /\ LET m == metrics_list[idx].metrics
           content == metrics_list[idx].content
       IN  ranked' = Append(ranked,
                [score |-> cur.score,
                 obj |-> idx,
                 content_preview |-> content_preview(content),
                 strengths |-> identify_strengths(m),
                 weaknesses |-> identify_weaknesses(m, now),
                 recommendation |-> Unset,
                 trust_level |-> Unset])
    /\ idx' = idx + 1
    /\ pc' = "score"
    /\ cur' = NoLocals
    /\ UNCHANGED <<now, ticks, rec, calls, solutions, metrics_list, raised, seconds, rate_limits>>

\* lines 393-395: the sort, and the return to rank_solutions
SortRanked ==
    /\ pc = "score"
    /\ idx > Len(metrics_list)
    /\ ranked' = SortByScore(ranked)
    /\ pc' = "annotate"
    /\ idx' = 1
    /\ UNCHANGED <<now, ticks, rec, calls, solutions, metrics_list, cur, raised, seconds, rate_limits>>

\* the variant that takes the candidate's place in the input for its rank
Annotate_input_position ==
    /\ pc = "annotate"
    /\ idx <= Len(ranked)
    /\ ranked' = [ranked EXCEPT
            ![idx].recommendation =
                get_recommendation(ranked[idx].score, ranked[idx].obj - 1),
            ![idx].trust_level = get_trust_level(ranked[idx].score)]
    /\ idx' = idx + 1
    /\ UNCHANGED <<now, ticks, rec, calls, solutions, pc, metrics_list, cur, raised, seconds, rate_limits>>

\* lines 462-466: one iteration of the annotation loop; rank is idx - 1
Annotate ==
    /\ pc = "annotate"
    /\ idx <= Len(ranked)
    /\ ranked' = [ranked EXCEPT
            ![idx].recommendation = get_recommendation(ranked[idx].score, idx - 1),
            ![idx].trust_level = get_trust_level(ranked[idx].score)]
    /\ idx' = idx + 1
    /\ UNCHANGED <<now, ticks, rec, calls, solutions, pc, metrics_list, cur, raised, seconds, rate_limits>>

\* line 468
Return ==
    /\ pc = "annotate"
    /\ idx > Len(ranked)
    /\ pc' = "done"
    /\ UNCHANGED <<now, ticks, rec, calls, solutions, metrics_list, ranked, idx, cur, raised, seconds, rate_limits>>

Init ==
    /\ now = 0
    /\ ticks = 0
    /\ rec = SolutionMetrics
    /\ calls = <<>>
    /\ solutions \in Batches
    /\ pc = "convert"
    /\ metrics_list = <<>>
    /\ ranked = <<>>
    /\ idx = 1
    /\ cur = NoLocals
    /\ raised = "none"
    /\ seconds = 0
    /\ rate_limits = NoSearcher

Next ==
    \/ Tick
    \/ Convert
    \/ CallCompare
    \/ AnalyzeAndScore
    \/ AppendEntry
    \/ SortRanked
    \/ Annotate
    \/ Return

Spec == Init /\ [][Next]_vars

-----------------------------------------------------------------------------
(* Properties of calculate_score, checked under SpecScore *)

Returned(k) == k \in 1..Len(calls) /\ ~calls[k].raised

Clamp100(x) == Min(Max(x, 0), 100 * ScoreUnit)

\* C1: every score calculate_score returns lies in [0,100], whatever the
\* platform and whether or not the record is contradicted
C1_ScoreInRange ==
    \A k \in 1..Len(calls) :
        Returned(k) => 0 <= calls[k].score /\ calls[k].score <= 100 * ScoreUnit

\* a call whose total exceeded 100 before the clamp
C1_Witness ==
    \E k \in 1..Len(calls) :
        /\ Returned(k)
        /\ TotalScore(rec, calls[k].at) > 100 * ScoreUnit
        /\ calls[k].score = 100 * ScoreUnit

\* C4: each of the six sub-scores of a call lies in [0,100], however many
\* badges the record holds
C4_SubScoresInRange ==
    \A k \in 1..Len(calls) :
        Returned(k) =>
            \A f \in Factors : 0 <= calls[k].scores[f] /\ calls[k].scores[f] <= 100

\* a call on a record whose reputation, post count and badges add up to
\* more than 100
C4_Witness ==
    \E k \in 1..Len(calls) :
        /\ Returned(k)
        /\ Len(rec.author_badges) >= 2
        /\ AuthorRaw(rec) > 100
        /\ calls[k].scores.author_credibility = 100

\* C5: two calls on the same unchanged record return the same score,
\* whenever they are made
C5_SameScoreWheneverCalled ==
    \A j, k \in 1..Len(calls) :
        /\ calls[j].raised = calls[k].raised
        /\ calls[j].score = calls[k].score

\* C6: the score of a contradicted record is min(100, 0.8 x T), T being the
\* total before the clamp of the record that differs only in contradicted
C6_PenaltyBeforeClamp ==
    \A k \in 1..Len(calls) :
        (Returned(k) /\ rec.contradicted) =>
            LET T == TotalScore([rec EXCEPT !.contradicted = FALSE], calls[k].at)
            IN  calls[k].score = Min(100 * ScoreUnit, (8 * T) \div 10)

\* a contradicted record with T = 110 scores 88
C6_Witness ==
    \E k \in 1..Len(calls) :
        /\ Returned(k)
        /\ rec.contradicted
        /\ TotalScore([rec EXCEPT !.contradicted = FALSE], calls[k].at) = 110 * ScoreUnit
        /\ calls[k].score = 88 * ScoreUnit

\* the multiplier table as the specification states it, in 1/100
StatedMultiplier(platform) ==
    LET p == Lower(platform)
    IN  CASE p = <<"s","t","e","a","m">> -> 110
          [] p = <<"r","e","d","d","i","t">> -> 100
          [] p = <<"g","a","m","e","f","a","q","s">> -> 95
          [] p = <<"d","i","s","c","o","r","d">> -> 105
          [] p = <<"y","o","u","t","u","b","e">> -> 90
          [] p = <<"w","i","k","i">> -> 85
          [] p = <<"f","o","r","u","m">> -> 95
          [] OTHER -> 100

\* C7: the score is the clamped product of the weighted sum of the six
\* sub-scores (weights 0.20, 0.25, 0.20, 0.15, 0.10, 0.10, which sum to 1),
\* the platform multiplier and 0.8 for a contradicted record
C7_ScoreFormula ==
    /\ WEIGHTS.author_credibility + WEIGHTS.community_validation
         + WEIGHTS.content_quality + WEIGHTS.official_endorsement
         + WEIGHTS.recency + WEIGHTS.detail_level = 100
    /\ \A k \in 1..Len(calls) :
        Returned(k) =>
            LET sc == calls[k].scores
                sum == 20 * sc.author_credibility + 25 * sc.community_validation
                       + 20 * sc.content_quality + 15 * sc.official_endorsement
                       + 10 * sc.recency + 10 * sc.detail_level
            IN  calls[k].score =
                    Clamp100(sum * StatedMultiplier(rec.platform)
                                 * (IF rec.contradicted THEN 8 ELSE 10))

\* a contradicted record of a listed platform other than reddit, whose
\* sub-scores differ from one another and whose score is not clamped
C7_Witness ==
    \E k \in 1..Len(calls) :
        /\ Returned(k)
        /\ rec.contradicted
        /\ Lower(rec.platform) = <<"w","i","k","i">>
        /\ calls[k].scores.official_endorsement # calls[k].scores.recency
        /\ 0 < calls[k].score /\ calls[k].score < 100 * ScoreUnit

\* C8: a platform that is not in the table gets the multiplier 1.0 and
\* makes no call fail, and a listed name is matched whatever its case
C8_UnknownPlatformNeutral ==
    \A k \in 1..Len(calls) :
        /\ calls[k].raised => rec.post_date.kind = "aware"
        /\ (Returned(k) /\ rec.platform \in UnlistedPlatforms) =>
            /\ calls[k].platform_mult = 100
            /\ calls[k].score =
                 Clamp100(WeightedSum(rec, calls[k].at) * 100
                            * (IF rec.contradicted THEN 8 ELSE 10))
        /\ (Returned(k) /\ rec.platform \in MixedCasePlatforms) =>
            /\ calls[k].platform_mult = 110
            /\ calls[k].score =
                 Clamp100(WeightedSum(rec, calls[k].at) * 110
                            * (IF rec.contradicted THEN 8 ELSE 10))

\* a call on a record whose platform is the empty string
C8_Witness ==
    \E k \in 1..Len(calls) :
        /\ Returned(k)
        /\ rec.platform = <<>>
        /\ calls[k].platform_mult = 100
        /\ calls[k].score > 0

\* C11: a record without a post_date gets the recency sub-score 50,
\* whatever its other fields and whatever the time of the call
C11_NoDateRecencyFifty ==
    \A k \in 1..Len(calls) :
        (Returned(k) /\ rec.post_date = NoDate) => calls[k].scores.recency = 50

\* two calls at different times on a record without a date whose other
\* facets are not the defaults
C11_Witness ==
    \E j, k \in 1..Len(calls) :
        /\ Returned(j) /\ Returned(k)
        /\ calls[j].at < calls[k].at
        /\ rec.post_date = NoDate
        /\ rec.upvotes > 0 /\ rec.is_solved /\ rec.contradicted
        /\ calls[j].scores.recency = 50
        /\ calls[k].scores.recency = 50

-----------------------------------------------------------------------------
(* Properties of rank_solutions, checked under Spec *)

Sorted == pc \in {"annotate", "done"}

\* C2: the ranked output is in descending order of score
C2_RankedDescending ==
    Sorted =>
        \A k \in 1..(Len(ranked) - 1) : ranked[k].score >= ranked[k + 1].score

\* a returned ranking whose best entry was not the first candidate
C2_Witness ==
    /\ pc = "done"
    /\ Len(ranked) >= 2
    /\ ranked[1].obj # 1
    /\ ranked[1].score > ranked[Len(ranked)].score

\* C3: candidates with equal scores keep their input order
C3_RankedStable ==
    Sorted =>
        \A a, b \in 1..Len(ranked) :
            (a < b /\ ranked[a].score = ranked[b].score)
                => ranked[a].obj < ranked[b].obj

\* two different records with equal scores, ranked behind a better
\* candidate that came after them
C3_Witness ==
    /\ pc = "done"
    /\ \E a, b \in 1..Len(ranked) :
        /\ 1 < a /\ a < b
        /\ ranked[a].score = ranked[b].score
        /\ solutions[ranked[a].obj] # solutions[ranked[b].obj]
        /\ ranked[1].obj > ranked[b].obj

\* C9: rank_solutions never raises and returns one scored, annotated entry
\* per record, whatever optional fields and date values the records carry
C9_RankNeverRaises ==
    /\ raised = "none"
    /\ seconds = 0
    /\ rate_limits = NoSearcher
    /\ pc # "raised"
    /\ pc = "done" =>
        /\ Len(ranked) = Len(solutions)
        /\ \A k \in 1..Len(ranked) : ranked[k].trust_level # Unset

\* the date of external record d is a string that cannot be parsed
Unparseable(d) ==
    "date" \in DOMAIN d /\ d.date.type = "str" /\ d.date.form = "bad"

WithoutDate(d) == [key \in DOMAIN d \ {"date"} |-> d[key]]

\* C10: a record whose date string cannot be parsed is ranked as the same
\* record without a date: no post_date, a recency sub-score of 50, no
\* 'Over 1 year old' weakness
C10_BadDateAsAbsent ==
    /\ \A k \in 1..Len(metrics_list) :
        Unparseable(solutions[k]) =>
            /\ metrics_list[k].metrics.post_date = NoDate
            /\ (pc = "append" /\ idx = k) =>
                /\ cur.scores.recency = 50
                /\ cur.score =
                     calculate_score(
                        Backfill(dict_to_metrics(WithoutDate(solutions[k])),
                                 analyze_content(ContentOf(solutions[k]))), now)
    /\ \A e \in Range(ranked) :
        Unparseable(solutions[e.obj]) =>
            LET m == Backfill(dict_to_metrics(WithoutDate(solutions[e.obj])),
                              analyze_content(ContentOf(solutions[e.obj])))
            IN  /\ metrics_list[e.obj].metrics = m
                /\ e.score = calculate_score(m, now)
                /\ e.strengths = identify_strengths(m)
                /\ e.weaknesses = identify_weaknesses(m, now)
                /\ <<"Over 1 year old">> \notin Range(e.weaknesses)

\* a returned ranking that holds a record with an unparseable date
C10_Witness ==
    /\ pc = "done"
    /\ \E e \in Range(ranked) :
        /\ Unparseable(solutions[e.obj])
        /\ e.trust_level # Unset

-----------------------------------------------------------------------------
(* Direct calls of _score_community_validation on a record whose upvote    *)
(* count grows between the calls                                           *)

MaxUpvotes == 101

DownvoteChoices == {0, 3, 20}

\* the records before the first call: a post with some replies and views,
\* whose upvote count (a net score may be negative) is still low
VoteRecords ==
    { [SolutionMetrics EXCEPT !.upvotes = u, !.downvotes = d,
                              !.reply_count = 8, !.view_count = 1500,
                              !.confirmed_working = 1]
      : u \in {0 - 2, 0}, d \in DownvoteChoices }

\* one more upvote: the caller raises metrics.upvotes and nothing else
Upvote ==
    /\ Len(calls) < MaxCalls
    /\ rec.upvotes < MaxUpvotes
    /\ rec' = [rec EXCEPT !.upvotes = rec.upvotes + 1]
    /\ UNCHANGED <<now, ticks, calls, solutions, pc, metrics_list, ranked, idx, cur, raised, seconds, rate_limits>>

CommunityCall ==
    /\ Len(calls) < MaxCalls
    /\ calls' = Append(calls,
            [upvotes |-> rec.upvotes, downvotes |-> rec.downvotes,
             community_validation |-> score_community_validation(rec)])
    /\ UNCHANGED <<now, ticks, rec, solutions, pc, metrics_list, ranked, idx, cur, raised, seconds, rate_limits>>

InitVotes ==
    /\ now = 0
    /\ ticks = 0
    /\ rec \in VoteRecords
    /\ calls = <<>>
    /\ solutions = <<>>
    /\ pc = "idle"
    /\ metrics_list = <<>>
    /\ ranked = <<>>
    /\ idx = 0
    /\ cur = NoLocals
    /\ raised = "none"
    /\ seconds = 0
    /\ rate_limits = NoSearcher

NextVotes == Upvote \/ CommunityCall

SpecVotes == InitVotes /\ [][NextVotes]_vars

-----------------------------------------------------------------------------
(* Direct calls of _score_author_credibility on a record that is awarded   *)
(* badges between the calls                                                *)

BadgeStrings ==
    { <<"V","e","r","i","f","i","e","d"," ","D","e","v","e","l","o","p","e","r">>,
      <<"M","V","P"," ","H","e","l","p","e","r">>,
      <<"V","e","r","i","f","i","e","d">>,
      <<"D","e","v","e","l","o","p","e","r">>,
      <<"N","e","w","c","o","m","e","r">>,
      <<"T","R","U","S","T","E","D">> }

\* the records before the first call: no badge yet
BadgeRecords ==
    { [SolutionMetrics EXCEPT !.author_reputation = r] : r \in {0, 600} }

\* metrics.author_badges.append(badge), by the caller
AwardBadge ==
    /\ Len(calls) < MaxCalls
    /\ Len(rec.author_badges) < MaxBadges
    /\ \E badge \in BadgeStrings :
            rec' = [rec EXCEPT !.author_badges = Append(rec.author_badges, badge)]
    /\ UNCHANGED <<now, ticks, calls, solutions, pc, metrics_list, ranked, idx, cur, raised, seconds, rate_limits>>

AuthorCall ==
    /\ Len(calls) < MaxCalls
    /\ calls' = Append(calls,
            [author_badges |-> rec.author_badges,
             author_credibility |-> score_author_credibility(rec)])
    /\ UNCHANGED <<now, ticks, rec, solutions, pc, metrics_list, ranked, idx, cur, raised, seconds, rate_limits>>

InitBadges ==
    /\ now = 0
    /\ ticks = 0
    /\ rec \in BadgeRecords
    /\ calls = <<>>
    /\ solutions = <<>>
    /\ pc = "idle"
    /\ metrics_list = <<>>
    /\ ranked = <<>>
    /\ idx = 0
    /\ cur = NoLocals
    /\ raised = "none"
    /\ seconds = 0
    /\ rate_limits = NoSearcher

NextBadges == AwardBadge \/ AuthorCall

SpecBadges == InitBadges /\ [][NextBadges]_vars

-----------------------------------------------------------------------------
(* Direct calls of _get_recommendation and _get_trust_level                *)

\* the scores at which a label changes, in points
LabelEdges == {35, 50, 60, 65, 70, 80}

\* scores handed to the two methods: each edge, its two neighbours one
\* unit away, the ends of the range and some scores in between
ScoreGrid ==
    {e * ScoreUnit + x : e \in LabelEdges, x \in {0 - 1, 0, 1}}
    \cup {p * ScoreUnit : p \in {0, 42, 75, 90, 100}}

Ranks == 0..(MaxBatch - 1)

RecommendationCall ==
    /\ Len(calls) < MaxCalls
    /\ \E score \in ScoreGrid, rank \in Ranks :
            calls' = Append(calls,
                [fn |-> "get_recommendation", score |-> score, rank |-> rank,
                 label |-> get_recommendation(score, rank)])
    /\ UNCHANGED <<now, ticks, rec, solutions, pc, metrics_list, ranked, idx, cur, raised, seconds, rate_limits>>

TrustCall ==
    /\ Len(calls) < MaxCalls
    /\ \E score \in ScoreGrid :
            calls' = Append(calls,
                [fn |-> "get_trust_level", score |-> score,
                 label |-> get_trust_level(score)])
    /\ UNCHANGED <<now, ticks, rec, solutions, pc, metrics_list, ranked, idx, cur, raised, seconds, rate_limits>>

InitLabels ==
    /\ now = 0
    /\ ticks = 0
    /\ rec = SolutionMetrics
    /\ calls = <<>>
    /\ solutions = <<>>
    /\ pc = "idle"
    /\ metrics_list = <<>>
    /\ ranked = <<>>
    /\ idx = 0
    /\ cur = NoLocals
    /\ raised = "none"
    /\ seconds = 0
    /\ rate_limits = NoSearcher

NextLabels == RecommendationCall \/ TrustCall

SpecLabels == InitLabels /\ [][NextLabels]_vars

-----------------------------------------------------------------------------
(* SolutionRanker.generate_summary_report, called on a ranked list as      *)
(* rank_solutions returns it                                               *)

MaxRanked == 5

UpperMap ==
    [c \in Range(LowerChars) |->
        UpperChars[CHOOSE k \in 1..Len(LowerChars) : LowerChars[k] = c]]

IsLetter(c) == c \in DOMAIN UpperMap \/ c \in DOMAIN LowerMap

\* str.title(): a letter that follows no letter is upper-cased, every
\* other letter lower-cased
Title(s) ==
    [k \in 1..Len(s) |->
        IF k = 1 \/ ~IsLetter(s[k - 1])
        THEN (IF s[k] \in DOMAIN UpperMap THEN UpperMap[s[k]] ELSE s[k])
        ELSE LowerChar(s[k])]

\* f"{score:.1f}": the score in tenths of a point, rounded half to even
Format1(score) ==
    LET tenth == ScoreUnit \div 10
        q == score \div tenth
        r == score % tenth
    IN  IF 2 * r > tenth THEN q + 1
        ELSE IF 2 * r < tenth THEN q
        ELSE IF q % 2 = 0 THEN q ELSE q + 1

\* _get_confidence_level(avg_score), avg_score being sum / n: the
\* comparisons are made without dividing
get_confidence_level(sum, n) ==
    IF sum >= 70 * ScoreUnit * n THEN "High"
    ELSE IF sum >= 50 * ScoreUnit * n THEN "Moderate"
    ELSE "Low"

RECURSIVE SumScores(_)
SumScores(entries) ==
    IF entries = <<>> THEN 0 ELSE Head(entries).score + SumScores(Tail(entries))

\* the lines of the report up to the overall confidence; a line that is
\* left out when its list is empty is an empty list here
ReportHead(ranked_solutions, metrics) ==
    LET best == ranked_solutions[1]
    IN  [best_score |-> Format1(best.score),
         trust_level |-> best.trust_level,
         platform |-> Title(metrics[best.obj].metrics.platform),
         strengths |-> best.strengths,
         cautions |-> best.weaknesses,
         recommendation |-> best.recommendation,
         alternatives |->
            [k \in 1..Min(3, Len(ranked_solutions) - 1) |->
                [score |-> Format1(ranked_solutions[k + 1].score),
                 recommendation |-> ranked_solutions[k + 1].recommendation]]]

\* the variant that averages the entries it displays
generate_summary_report_displayed_mean(ranked_solutions, metrics) ==
    IF ranked_solutions = <<>>
    THEN [found |-> FALSE]
    ELSE LET shown == SubSeq(ranked_solutions, 1, Min(4, Len(ranked_solutions)))
         IN  [found |-> TRUE,
              head |-> ReportHead(ranked_solutions, metrics),
              confidence |-> get_confidence_level(SumScores(shown), Len(shown))]

\* the report, by its parts; metrics holds the Metrics Records the entries
\* refer to
generate_summary_report(ranked_solutions, metrics) ==
    IF ranked_solutions = <<>>
    THEN [found |-> FALSE]
    ELSE [found |-> TRUE,
          head |-> ReportHead(ranked_solutions, metrics),
          confidence |-> get_confidence_level(SumScores(ranked_solutions),
                                              Len(ranked_solutions))]

\* scores of the entries of a ranked list, in points
ReportScores == {100, 90, 70, 50, 40, 10}

ReportPlatforms ==
    { <<"r","e","d","d","i","t">>, <<"g","a","m","e","F","A","Q","s"," ","f","o","r","u","m">> }

\* the score lists in descending order, of up to MaxRanked entries
DescendingScores ==
    {q \in SeqsUpTo(ReportScores, MaxRanked) :
        \A k \in 1..(Len(q) - 1) : q[k] >= q[k + 1]}

\* the ranked list with these scores, annotated as lines 462-466 do
RankedOf(q) ==
    [k \in 1..Len(q) |->
        [score |-> q[k] * ScoreUnit,
         obj |-> k,
         content_preview |-> TextOk,
         strengths |-> IF q[k] > 60 THEN << <<"Marked as solution">> >> ELSE <<>>,
         weaknesses |-> << <<"Very brief explanation">> >>,
         recommendation |-> get_recommendation(q[k] * ScoreUnit, k - 1),
         trust_level |-> get_trust_level(q[k] * ScoreUnit)]]

ReportCall ==
    /\ pc = "done"
    /\ Len(calls) < MaxCalls
    /\ calls' = Append(calls, generate_summary_report(ranked, metrics_list))
    /\ UNCHANGED <<now, ticks, rec, solutions, pc, metrics_list, ranked, idx, cur, raised, seconds, rate_limits>>

InitReport ==
    /\ now = 0
    /\ ticks = 0
    /\ rec = SolutionMetrics
    /\ calls = <<>>
    /\ solutions = <<>>
    /\ pc = "done"
    /\ \E q \in DescendingScores, platform \in ReportPlatforms :
        /\ ranked = RankedOf(q)
        /\ metrics_list =
             [k \in 1..Len(q) |->
                [metrics |-> [SolutionMetrics EXCEPT !.platform = platform,
                                                     !.is_solved = q[k] > 60],
                 content |-> TextOk]]
    /\ idx = Len(ranked) + 1
    /\ cur = NoLocals
    /\ raised = "none"
    /\ seconds = 0
    /\ rate_limits = NoSearcher

NextReport == ReportCall

SpecReport == InitReport /\ [][NextReport]_vars

-----------------------------------------------------------------------------
(* Properties of the factor scorers *)

\* C12: of two records that differ only in upvotes, the one with no fewer
\* upvotes has no smaller a community-validation sub-score; this includes
\* the step from 0 upvotes to 1
C12_UpvotesMonotone ==
    \A j, k \in 1..Len(calls) :
        calls[j].upvotes <= calls[k].upvotes
            => calls[j].community_validation <= calls[k].community_validation

\* the step from 0 upvotes to 1 upvote, against 20 downvotes
C12_Witness ==
    \E j, k \in 1..Len(calls) :
        /\ calls[j].upvotes = 0 /\ calls[k].upvotes = 1
        /\ calls[j].downvotes = 20
        /\ calls[j].community_validation < calls[k].community_validation

\* the points of the reputation and post-count ladders of the record
LadderPoints == AuthorRaw([rec EXCEPT !.author_badges = <<>>])

\* the category table as the claim states it: the points of the first key,
\* in the order of the table, that the lower-cased badge contains
StatedBadgePoints(badge) ==
    LET low == Lower(badge)
    IN  IF Contains(low, <<"m","o","d","e","r","a","t","o","r">>) THEN 20
        ELSE IF Contains(low, <<"d","e","v","e","l","o","p","e","r">>) THEN 25
        ELSE IF Contains(low, <<"v","e","r","i","f","i","e","d">>) THEN 15
        ELSE IF Contains(low, <<"h","e","l","p","e","r">>) THEN 10
        ELSE IF Contains(low, <<"v","e","t","e","r","a","n">>) THEN 10
        ELSE IF Contains(low, <<"e","x","p","e","r","t">>) THEN 15
        ELSE IF Contains(low, <<"m","v","p">>) THEN 20
        ELSE IF Contains(low, <<"t","r","u","s","t","e","d">>) THEN 15
        ELSE 0

RECURSIVE StatedBadgeSum(_)
StatedBadgeSum(badges) ==
    IF badges = <<>> THEN 0
    ELSE StatedBadgePoints(Head(badges)) + StatedBadgeSum(Tail(badges))

\* C13: each badge contributes the points of at most one category, the
\* first key of the table (moderator, developer, verified, helper, veteran,
\* expert, mvp, trusted) that its lower-cased text contains, and 0 when it
\* contains none
C13_FirstKeyInTableOrder ==
    \A k \in 1..Len(calls) :
        calls[k].author_credibility =
            Min(LadderPoints + StatedBadgeSum(calls[k].author_badges), 100)

\* a call on a record that holds 'MVP Helper' (helper comes before mvp in
\* the table, behind it in the badge) and a badge without any key
C13_Witness ==
    \E k \in 1..Len(calls) :
        /\ calls[k].author_badges =
             << <<"M","V","P"," ","H","e","l","p","e","r">>,
                <<"N","e","w","c","o","m","e","r">> >>
        /\ calls[k].author_credibility = LadderPoints + 10

\* the keys of the table that the badge contains
MatchedKeys(badge) ==
    {k \in 1..Len(badge_scores) : Contains(Lower(badge), badge_scores[k].key)}

\* the points of all the categories the badge matches, added up
RECURSIVE StackedPoints(_)
StackedPoints(badges) ==
    IF badges = <<>> THEN 0
    ELSE LET keys == MatchedKeys(Head(badges))
             pts[S \in SUBSET keys] ==
                 IF S = {} THEN 0
                 ELSE LET k == CHOOSE x \in S : TRUE
                      IN  badge_scores[k].points + pts[S \ {k}]
         IN  pts[keys] + StackedPoints(Tail(badges))

\* C14 as stated: a badge that contains several distinct category keys
\* contributes the points of every category it matches
C14_CategoriesStack ==
    \A k \in 1..Len(calls) :
        calls[k].author_credibility =
            Min(LadderPoints + StackedPoints(calls[k].author_badges), 100)

\* call k is made on the record of call j with one more badge
OneMoreBadge(j, k) ==
    /\ Len(calls[k].author_badges) = Len(calls[j].author_badges) + 1
    /\ SubSeq(calls[k].author_badges, 1, Len(calls[j].author_badges))
         = calls[j].author_badges

\* C14 amended: a badge that contains several distinct category keys adds
\* the points of one of them only, the first in table order, which is less
\* than their sum; categories add up across separate badges
C14_OneCategoryPerBadge ==
    \A j, k \in 1..Len(calls) :
        OneMoreBadge(j, k) =>
            LET badge == calls[k].author_badges[Len(calls[k].author_badges)]
                keys == MatchedKeys(badge)
                added == calls[k].author_credibility - calls[j].author_credibility
            IN  /\ keys = {} => added = 0
                /\ keys # {} =>
                     added = badge_scores[CHOOSE x \in keys : \A y \in keys : x <= y].points
                /\ Cardinality(keys) > 1 => added < StackedPoints(<<badge>>)

\* 'Verified Developer' is awarded between two calls and adds 25, not 40
C14_Witness ==
    \E j, k \in 1..Len(calls) :
        /\ OneMoreBadge(j, k)
        /\ calls[k].author_badges[Len(calls[k].author_badges)] =
             <<"V","e","r","i","f","i","e","d"," ","D","e","v","e","l","o","p","e","r">>
        /\ calls[k].author_credibility = calls[j].author_credibility + 25

-----------------------------------------------------------------------------
(* Properties of the labels, checked under SpecLabels *)

\* C15: the recommendation depends on the rank and the score alone: rank 0
\* and score > 80 'Highly Recommended', else rank 0 and score > 60
\* 'Recommended', else score > 70 'Good Alternative', else score > 50
\* 'Use with caution', else 'Last resort'; every comparison is strict
C15_RecommendationLadder ==
    \A k \in 1..Len(calls) :
        calls[k].fn = "get_recommendation" =>
            LET score == calls[k].score
                first == calls[k].rank = 0
            IN  /\ (first /\ score > 80 * ScoreUnit)
                        => calls[k].label = "Highly Recommended"
                /\ (first /\ score > 60 * ScoreUnit /\ score <= 80 * ScoreUnit)
                        => calls[k].label = "Recommended"
                /\ ((~first \/ score <= 60 * ScoreUnit) /\ score > 70 * ScoreUnit)
                        => calls[k].label = "Good Alternative"
                /\ ((~first \/ score <= 60 * ScoreUnit)
                        /\ score > 50 * ScoreUnit /\ score <= 70 * ScoreUnit)
                        => calls[k].label = "Use with caution"
                /\ score <= 50 * ScoreUnit => calls[k].label = "Last resort"

\* the best entry at exactly 80 is 'Recommended', and another entry above
\* 80 is a 'Good Alternative'
C15_Witness ==
    \E j, k \in 1..Len(calls) :
        /\ calls[j].fn = "get_recommendation" /\ calls[k].fn = "get_recommendation"
        /\ calls[j].rank = 0 /\ calls[j].score = 80 * ScoreUnit
        /\ calls[j].label = "Recommended"
        /\ calls[k].rank > 0 /\ calls[k].score > 80 * ScoreUnit
        /\ calls[k].label = "Good Alternative"

\* the place of a trust level, from the worst to the best
TrustOrder(label) ==
    CASE label = "Very Low" -> 1
      [] label = "Low" -> 2
      [] label = "Moderate" -> 3
      [] label = "High" -> 4
      [] label = "Very High" -> 5
      [] OTHER -> 0

\* C16: the trust level depends on the score alone, by inclusive lower
\* bounds (80 'Very High', 65 'High', 50 'Moderate', 35 'Low', below that
\* 'Very Low'), and never gets worse as the score grows
C16_TrustBands ==
    /\ \A k \in 1..Len(calls) :
        calls[k].fn = "get_trust_level" =>
            LET score == calls[k].score
            IN  /\ score >= 80 * ScoreUnit <=> calls[k].label = "Very High"
                /\ (65 * ScoreUnit <= score /\ score < 80 * ScoreUnit)
                        <=> calls[k].label = "High"
                /\ (50 * ScoreUnit <= score /\ score < 65 * ScoreUnit)
                        <=> calls[k].label = "Moderate"
                /\ (35 * ScoreUnit <= score /\ score < 50 * ScoreUnit)
                        <=> calls[k].label = "Low"
                /\ score < 35 * ScoreUnit <=> calls[k].label = "Very Low"
    /\ \A j, k \in 1..Len(calls) :
        (/\ calls[j].fn = "get_trust_level"
         /\ calls[k].fn = "get_trust_level"
         /\ calls[j].score <= calls[k].score)
            => TrustOrder(calls[j].label) <= TrustOrder(calls[k].label)

\* a score of exactly 80 is 'Very High' and the score just below it 'High'
C16_Witness ==
    \E j, k \in 1..Len(calls) :
        /\ calls[j].fn = "get_trust_level" /\ calls[k].fn = "get_trust_level"
        /\ calls[j].score = 80 * ScoreUnit /\ calls[j].label = "Very High"
        /\ calls[k].score = 80 * ScoreUnit - 1 /\ calls[k].label = "High"

-----------------------------------------------------------------------------
(* Properties of the summary report, checked under SpecReport *)

\* C17: for a ranked list that is not empty the confidence of the report is
\* the band of the arithmetic mean of the scores of all its entries: 'High'
\* from 70, 'Moderate' from 50, 'Low' below
C17_ConfidenceOfMean ==
    \A k \in 1..Len(calls) :
        ranked # <<>> =>
            LET n == Len(ranked)
                sum == SumScores(ranked)
            IN  /\ calls[k].found
                /\ sum >= 70 * ScoreUnit * n <=> calls[k].confidence = "High"
                /\ (50 * ScoreUnit * n <= sum /\ sum < 70 * ScoreUnit * n)
                        <=> calls[k].confidence = "Moderate"
                /\ sum < 50 * ScoreUnit * n <=> calls[k].confidence = "Low"

\* a report on five entries, one more than it displays, whose displayed
\* entries average 70 or more and whose entries all together do not
C17_Witness ==
    \E k \in 1..Len(calls) :
        /\ Len(ranked) = 5
        /\ Len(calls[k].head.alternatives) = 3
        /\ SumScores(SubSeq(ranked, 1, 4)) >= 70 * ScoreUnit * 4
        /\ SumScores(ranked) < 70 * ScoreUnit * 5
        /\ calls[k].confidence = "Moderate"

-----------------------------------------------------------------------------
(* Properties of the examples and of the phases of rank_solutions, checked *)
(* under Spec                                                              *)

\* a hundredth of a point
Hundredth == ScoreUnit \div 100

Annotated(e) == e.trust_level # Unset

\* external record d is the record C18 describes: the fields of the first
\* example of main(), and a text with a numbered list and a confirmation
\* phrase
DescribedInC18(d) ==
    /\ [key \in DOMAIN d \ {"content"} |-> d[key]]
         = [key \in DOMAIN Example1 \ {"content"} |-> Example1[key]]
    /\ "content" \in DOMAIN d
    /\ HasNumbered(d.content)
    /\ ContentAnalysis(d.content).confirmed_working > 0

\* C18 as stated: the record scores 80 or more and is trusted 'Very High'
C18_ExampleVeryHigh ==
    \A e \in Range(ranked) :
        (Annotated(e) /\ DescribedInC18(solutions[e.obj])) =>
            /\ e.score >= 80 * ScoreUnit
            /\ e.trust_level = "Very High"

\* C18 amended: the record scores less than 80, at most 68.25, and its
\* trust level is below 'Very High'; with the text of main() it scores
\* 51.25 and is trusted 'Moderate'
C18_ExampleBelowEighty ==
    \A e \in Range(ranked) :
        (Annotated(e) /\ DescribedInC18(solutions[e.obj])) =>
            /\ e.score < 80 * ScoreUnit
            /\ e.score <= 6825 * Hundredth
            /\ e.trust_level \in {"Very Low", "Low", "Moderate", "High"}
            /\ solutions[e.obj] = Example1 =>
                /\ e.score = 5125 * Hundredth
                /\ e.trust_level = "Moderate"

\* a returned ranking that holds the first example of main()
C18_Witness ==
    /\ pc = "done"
    /\ \E e \in Range(ranked) :
        /\ solutions[e.obj] = Example1
        /\ e.score = 5125 * Hundredth
        /\ e.trust_level = "Moderate"

\* C19: the second example of main() gets the content-quality sub-score 0,
\* a community-validation sub-score of at most 30, a score under 65 and a
\* trust level of 'Moderate', 'Low' or 'Very Low'
C19_BriefExampleLow ==
    /\ (pc = "append" /\ solutions[idx] = Example2) =>
        /\ cur.scores.content_quality = 0
        /\ cur.scores.community_validation <= 30
    /\ \A e \in Range(ranked) :
        solutions[e.obj] = Example2 =>
            /\ e.score < 65 * ScoreUnit
            /\ Annotated(e) => e.trust_level \in {"Moderate", "Low", "Very Low"}

\* a returned ranking that holds the second example, ranked behind a
\* better candidate
C19_Witness ==
    /\ pc = "done"
    /\ \E k \in 2..Len(ranked) :
        /\ solutions[ranked[k].obj] = Example2
        /\ ranked[k].score > 0
        /\ ranked[k].trust_level = "Very Low"

\* what every state of a call shows of the phases
PhaseState ==
    /\ (\E e \in Range(ranked) :
            e.recommendation # Unset \/ e.trust_level # Unset) => Sorted
    /\ Sorted =>
        /\ {e.obj : e \in Range(ranked)} = 1..Len(solutions)
        /\ Len(ranked) = Len(solutions)
    /\ \A k \in 1..Len(ranked) :
        ranked[k].recommendation # Unset =>
            ranked[k].recommendation = get_recommendation(ranked[k].score, k - 1)

\* what every step of a call shows of the phases: the step that sorts finds
\* an entry for every candidate; before it entries are only appended; after
\* it the order stays
PhaseStep ==
    /\ (~Sorted /\ Sorted') =>
        /\ Len(ranked) = Len(solutions)
        /\ \A k \in 1..(Len(ranked') - 1) : ranked'[k].score >= ranked'[k + 1].score
    /\ Sorted =>
        /\ Sorted'
        /\ [k \in 1..Len(ranked) |-> ranked[k].obj]
             = [k \in 1..Len(ranked') |-> ranked'[k].obj]
    /\ (~Sorted /\ ~Sorted') =>
        \A k \in 1..Len(ranked) : k <= Len(ranked') /\ ranked'[k] = ranked[k]

\* C20: the sort runs only once every candidate of the batch is analysed
\* and scored, no entry gets a recommendation or a trust level before the
\* sort, and a recommendation is that of the entry's place in the sorted
\* list
C20_PhasesOrdered == []PhaseState /\ [][PhaseStep]_vars

\* a returned ranking whose best entry was not the first candidate and
\* whose recommendation is not that of its place in the input
C20_Witness ==
    /\ pc = "done"
    /\ Len(ranked) >= 2
    /\ ranked[1].obj > 1
    /\ ranked[1].recommendation
         # get_recommendation(ranked[1].score, ranked[1].obj - 1)

-----------------------------------------------------------------------------
(* The mutation of a Metrics Record, checked under Spec *)

\* records a and b agree on every field outside the content facet
SameOutsideContent(a, b) ==
    [a EXCEPT !.word_count = b.word_count,
              !.has_steps = b.has_steps,
              !.has_screenshots = b.has_screenshots,
              !.has_video = b.has_video,
              !.code_blocks = b.code_blocks] = b

\* the content facet of record m holds the values of analysis a
HoldsAnalysis(m, a) ==
    /\ m.word_count = a.word_count
    /\ m.has_steps = a.has_steps
    /\ m.has_screenshots = a.has_screenshots
    /\ m.has_video = a.has_video
    /\ m.code_blocks = a.code_blocks

\* candidate k has its score: it is being appended, or it has an entry
Scored(k) ==
    \/ pc = "append" /\ idx = k
    \/ \E j \in 1..Len(ranked) : ranked[j].obj = k

\* a step that changes the pair of candidate k is the step of
\* compare_solutions on k before k is scored; it leaves the content and
\* every field outside the content facet, and the content facet then holds
\* the analysis of the content
BackfillStep(k) ==
    metrics_list'[k] # metrics_list[k] =>
        /\ pc = "score" /\ idx = k /\ ~Scored(k)
        /\ metrics_list'[k].content = metrics_list[k].content
        /\ SameOutsideContent(metrics_list'[k].metrics, metrics_list[k].metrics)
        /\ HoldsAnalysis(metrics_list'[k].metrics,
                         ContentAnalysis(metrics_list[k].content))

\* no step drops a pair, and a step changes a pair only by the backfill
RecordStep ==
    /\ Len(metrics_list') >= Len(metrics_list)
    /\ \A k \in 1..Len(metrics_list) : BackfillStep(k)

\* C21: compare_solutions changes a Metrics Record in one step, before its
\* score is computed, and only in word_count, has_steps, has_screenshots,
\* has_video and code_blocks, which get the Content Analyzer's values; every
\* other field is left as it was, and no field changes once the record is
\* scored
C21_OnlyContentFacetBackfilled == [][RecordStep]_vars

\* a scored record that the backfill changed and whose other facets are
\* not the defaults
C21_Witness ==
    /\ pc = "append"
    /\ metrics_list[idx].metrics.word_count > 0
    /\ metrics_list[idx].metrics.has_steps
    /\ metrics_list[idx].metrics.upvotes > 0
    /\ metrics_list[idx].metrics.post_date # NoDate
    /\ ContentAnalysis(metrics_list[idx].content).confirmed_working > 0

-----------------------------------------------------------------------------
(* Independence of the batch, checked under Spec *)

\* the Metrics Record of external record d once its own content is analysed
OwnRecord(d) == Backfill(dict_to_metrics(d), ContentAnalysis(ContentOf(d)))

\* what external record d gets when scored at clock reading t with no other
\* candidate around
AloneTable ==
    [d \in SampleSolutions |->
        [t \in 0..MaxTicks |->
            IF ScoreRaises(OwnRecord(d))
            THEN [score |-> 0 - 1, strengths |-> <<>>, weaknesses |-> <<>>]
            ELSE [score |-> calculate_score(OwnRecord(d), t),
                  strengths |-> identify_strengths(OwnRecord(d)),
                  weaknesses |-> identify_weaknesses(OwnRecord(d), t)]]]

\* entry e is what its candidate alone gets at the clock readings t1, t2
AsAlone(e, t1, t2) ==
    LET d == solutions[e.obj]
    IN  /\ e.score = AloneTable[d][t1].score
        /\ e.trust_level = get_trust_level(AloneTable[d][t1].score)
        /\ e.strengths = AloneTable[d][t1].strengths
        /\ e.weaknesses = AloneTable[d][t2].weaknesses

\* C22: the score, strengths, weaknesses and trust_level of an entry of the
\* returned ranking are those its candidate gets alone at the clock readings
\* of its scoring, whatever the other candidates of the batch and wherever
\* it stands in the input; and two entries of one candidate scored at one
\* clock reading agree on all four
C22_BatchContextIrrelevant ==
    pc = "done" =>
        /\ \A k \in 1..Len(ranked) :
              \E t1 \in 0..now : \E t2 \in t1..now : AsAlone(ranked[k], t1, t2)
        /\ ticks = 0 =>
              \A j, k \in 1..Len(ranked) :
                 solutions[ranked[j].obj] = solutions[ranked[k].obj] =>
                    /\ ranked[j].score = ranked[k].score
                    /\ ranked[j].strengths = ranked[k].strengths
                    /\ ranked[j].weaknesses = ranked[k].weaknesses
                    /\ ranked[j].trust_level = ranked[k].trust_level

\* a returned ranking that holds one candidate twice, with another candidate
\* between the two in the input, under two recommendations
C22_Witness ==
    /\ pc = "done"
    /\ \E j, k \in 1..Len(ranked) :
          /\ ranked[j].obj + 1 < ranked[k].obj
          /\ solutions[ranked[j].obj] = solutions[ranked[k].obj]
          /\ solutions[ranked[j].obj + 1] # solutions[ranked[j].obj]
          /\ ranked[j].recommendation # ranked[k].recommendation
          /\ ranked[j].score = ranked[k].score

-----------------------------------------------------------------------------
(* The round trip of the content indicators, checked under Spec *)

\* a record built from nothing but the indicators of analysis a and is_solved
FreshRecord(a, solved) ==
    [SolutionMetrics EXCEPT !.word_count = a.word_count,
                            !.has_steps = a.has_steps,
                            !.has_screenshots = a.has_screenshots,
                            !.has_video = a.has_video,
                            !.code_blocks = a.code_blocks,
                            !.is_solved = solved]

\* C23: once compare_solutions has backfilled and scored a record, its
\* content-quality and detail-level sub-scores are those of a fresh record
\* that holds analyze_content's indicators and the same is_solved, and
\* backfilling and scoring the stored pair again gives the same two
\* sub-scores
C23_ContentSubScoresRoundTrip ==
    pc = "append" =>
        LET pair == metrics_list[idx]
            a == ContentAnalysis(pair.content)
            fresh == FreshRecord(a, pair.metrics.is_solved)
            again == SubScores(Backfill(pair.metrics, ContentAnalysis(pair.content)), now)
        IN  /\ cur.scores.content_quality = score_content_quality(fresh)
            /\ cur.scores.detail_level = score_detail_level(fresh)
            /\ again.content_quality = cur.scores.content_quality
            /\ again.detail_level = cur.scores.detail_level

\* a scored record with a solved mark whose content has steps, a
\* screenshot, a video and code
C23_Witness ==
    /\ pc = "append"
    /\ metrics_list[idx].metrics.is_solved
    /\ metrics_list[idx].metrics.has_video
    /\ metrics_list[idx].metrics.has_screenshots
    /\ metrics_list[idx].metrics.has_steps
    /\ metrics_list[idx].metrics.code_blocks > 0
    /\ cur.scores.content_quality > 0
    /\ cur.scores.detail_level > 0

-----------------------------------------------------------------------------
(* Direct calls of QualityScorer._score_recency on one dated record while  *)
(* the clock advances                                                      *)

\* the ages, in days, of the records at the start: one and two days short
\* of every edge of the ladder, a post from the future, and an old one
StartAges == {0 - 1, 0, 5, 6, 28, 29, 88, 89, 178, 179, 363, 364, 1000}

\* records with a naive post_date and nothing else
RecencyRecords == {[SolutionMetrics EXCEPT !.post_date = Naive(0 - a)] : a \in StartAges}

\* one call of _score_recency(rec): line 254 reads the clock
RecencyCall ==
    /\ Len(calls) < MaxCalls
    /\ calls' = Append(calls, [at |-> now,
                               age |-> now - rec.post_date.t,
                               recency |-> score_recency(rec, now)])
    /\ UNCHANGED <<now, ticks, rec, solutions, pc, metrics_list, ranked, idx, cur, raised, seconds, rate_limits>>

InitRecency ==
    /\ now = 0
    /\ ticks = 0
    /\ rec \in RecencyRecords
    /\ calls = <<>>
    /\ solutions = <<>>
    /\ pc = "idle"
    /\ metrics_list = <<>>
    /\ ranked = <<>>
    /\ idx = 0
    /\ cur = NoLocals
    /\ raised = "none"
    /\ seconds = 0
    /\ rate_limits = NoSearcher

NextRecency == Tick \/ RecencyCall

SpecRecency == InitRecency /\ [][NextRecency]_vars

\* the ladder as stated: the first band whose edge the age is below
StatedBands ==
    << [below |-> 7, points |-> 100], [below |-> 30, points |-> 90],
       [below |-> 90, points |-> 75], [below |-> 180, points |-> 60],
       [below |-> 365, points |-> 40] >>

StatedRecency(age) ==
    LET open == {k \in 1..Len(StatedBands) : age < StatedBands[k].below}
    IN  IF open = {} THEN 20
        ELSE StatedBands[CHOOSE k \in open : \A other \in open : k <= other].points

\* C24: for a record with a post_date the recency sub-score is 100 below 7
\* days of age, 90 below 30, 75 below 90, 60 below 180, 40 below 365 and 20
\* otherwise, an age on an edge falling in the older band, and of two calls
\* on one record the later never gives more
C24_RecencyLadder ==
    /\ \A k \in 1..Len(calls) :
          /\ calls[k].recency = StatedRecency(calls[k].age)
          /\ calls[k].age = 7 => calls[k].recency = 90
          /\ calls[k].age = 365 => calls[k].recency = 20
    /\ \A j, k \in 1..Len(calls) :
          j < k => calls[k].recency <= calls[j].recency

\* a post scored at six days of age and again at exactly seven
C24_Witness ==
    /\ Len(calls) = 2
    /\ calls[1].age = 6 /\ calls[1].recency = 100
    /\ calls[2].age = 7 /\ calls[2].recency = 90

-----------------------------------------------------------------------------
(* The entries of the returned ranking, checked under Spec *)

\* C25: the returned ranking has one entry per candidate of the batch: as
\* many entries as candidates, every candidate behind exactly one entry,
\* each entry carrying the preview of its candidate's content; an empty
\* batch returns an empty list
C25_OneEntryPerCandidate ==
    pc = "done" =>
        /\ Len(ranked) = Len(solutions)
        /\ \A c \in 1..Len(solutions) :
              Cardinality({k \in 1..Len(ranked) : ranked[k].obj = c}) = 1
        /\ \A k \in 1..Len(ranked) :
              /\ ranked[k].obj \in 1..Len(solutions)
              /\ ranked[k].content_preview
                   = content_preview(ContentOf(solutions[ranked[k].obj]))
        /\ solutions = <<>> => ranked = <<>>

\* a returned ranking of three candidates, two of them the same record
\* with the same score, in another order than the input
C25_Witness ==
    /\ pc = "done"
    /\ Len(ranked) = 3
    /\ solutions[1] = solutions[3]
    /\ solutions[1] # solutions[2]
    /\ ranked[1].obj = 2
    /\ ranked[2].score = ranked[3].score

-----------------------------------------------------------------------------
(* The age annotation and the recency sub-score, checked under Spec *)

\* the step that appends the entry of the current candidate: the entry says
\* 'Over 1 year old' exactly when the recency sub-score just computed is 20
AppendAgrees ==
    (pc = "append" /\ pc' = "score") =>
        LET e == ranked'[Len(ranked')]
        IN  (<<"Over 1 year old">> \in Range(e.weaknesses))
               <=> (cur.scores.recency = 20)

\* C26: for every ranked candidate the weakness 'Over 1 year old' is
\* attached exactly when its recency sub-score is 20, at an age of exactly
\* 365 days and when the clock advances between the two reads too
C26_AgeAnnotationAgrees == [][AppendAgrees]_vars

-----------------------------------------------------------------------------
(* The fields the rank path never sets, checked under Spec *)

\* the score of the dictionary `scores` on platform p without any penalty
Unpenalised(scores, p) ==
    Min(Max(WeightedSumOf(scores) * PlatformMult(p) * 10, 0), 100 * ScoreUnit)

\* C27: whatever keys an external record carries, the Metrics Record that
\* rank_solutions scores has contradicted false, mod_endorsed false,
\* confirmed_working 0, view_count 0 and author_post_count 0; its score
\* carries no contradiction penalty and no entry reports 'Has contradicting
\* replies'
C27_UnmappedFieldsStayDefault ==
    /\ \A k \in 1..Len(metrics_list) :
          LET m == metrics_list[k].metrics
          IN  /\ ~m.contradicted
              /\ ~m.mod_endorsed
              /\ m.confirmed_working = 0
              /\ m.view_count = 0
              /\ m.author_post_count = 0
    /\ pc = "append" =>
          cur.score = Unpenalised(cur.scores, metrics_list[idx].metrics.platform)
    /\ \A k \in 1..Len(ranked) :
          <<"Has contradicting replies">> \notin Range(ranked[k].weaknesses)

\* a returned ranking with an external record that carries all five keys,
\* contradicted among them
C27_Witness ==
    /\ pc = "done"
    /\ \E k \in 1..Len(ranked) :
          LET d == solutions[ranked[k].obj]
          IN  /\ {"contradicted", "mod_endorsed", "confirmed_working",
                  "view_count", "author_post_count"} \subseteq DOMAIN d
              /\ d.contradicted
              /\ d.mod_endorsed
              /\ d.confirmed_working > 0
              /\ d.view_count > 0
              /\ d.author_post_count > 0

-----------------------------------------------------------------------------
(* Direct calls of QualityScorer.analyze_content on a text that the caller *)
(* writes piece by piece; the text is the content of the one record of     *)
(* `solutions`                                                             *)

\* the longest text, in characters: room for the three ordinals on three lines
MaxTextLen == 18

\* the pieces of a text: the three ordinals in several letter cases, a
\* 'Step N' marker, a numeric marker, and a word that is none of these
Fragments ==
    { <<"F","i","r","s","t">>, <<"s","e","c","o","n","d">>,
      <<"T","H","I","R","D">>, <<"S","t","e","p"," ","2">>,
      <<"1","0",".">>, <<"t","h","e","n">> }

\* what stands between two pieces: a blank or a line break
Separators == {" ", "\n"}

\* the caller writes one more piece behind the text
WriteFragment ==
    /\ Len(calls) < MaxCalls
    /\ \E f \in Fragments, sep \in Separators :
          LET text == IF solutions[1].content = <<>> THEN f
                      ELSE solutions[1].content \o <<sep>> \o f
          IN  /\ Len(text) <= MaxTextLen
              /\ solutions' = << [content |-> text] >>
    /\ UNCHANGED <<now, ticks, rec, calls, pc, metrics_list, ranked, idx, cur, raised, seconds, rate_limits>>

\* one call of analyze_content(content)
AnalyzeCall ==
    /\ Len(calls) < MaxCalls
    /\ calls' = Append(calls, [content |-> solutions[1].content,
                               analysis |-> analyze_content(solutions[1].content)])
    /\ UNCHANGED <<now, ticks, rec, solutions, pc, metrics_list, ranked, idx, cur, raised, seconds, rate_limits>>

InitAnalyze ==
    /\ now = 0
    /\ ticks = 0
    /\ rec = SolutionMetrics
    /\ calls = <<>>
    /\ solutions = << [content |-> <<>>] >>
    /\ pc = "idle"
    /\ metrics_list = <<>>
    /\ ranked = <<>>
    /\ idx = 0
    /\ cur = NoLocals
    /\ raised = "none"
    /\ seconds = 0
    /\ rate_limits = NoSearcher

NextAnalyze == WriteFragment \/ AnalyzeCall

SpecAnalyze == InitAnalyze /\ [][NextAnalyze]_vars

\* the lower-cased text low holds first, second and third in that order,
\* wherever they stand
OrdinalsInOrder(low) ==
    \E a \in 1..Len(low) :
        /\ MatchAt(low, <<"f","i","r","s","t">>, a)
        /\ \E b \in (a + 5)..Len(low) :
            /\ MatchAt(low, <<"s","e","c","o","n","d">>, b)
            /\ \E c \in (b + 6)..Len(low) :
                MatchAt(low, <<"t","h","i","r","d">>, c)

\* C28: analyze_content sets has_steps for every text that holds First,
\* Second and Third in that order in any letter case, on one line or on
\* several, and for every text with a numeric marker or a 'Step N' marker;
\* any other text gets has_steps false
C28_StepsDetected ==
    \A k \in 1..Len(calls) :
        calls[k].analysis.has_steps
            <=> \/ OrdinalsInOrder(Lower(calls[k].content))
                \/ HasNumbered(calls[k].content)
                \/ HasStepN(Lower(calls[k].content))

-----------------------------------------------------------------------------
(* search_forums.py: ForumSearcher._check_rate_limit.  Time is in whole    *)
(* seconds here; `seconds` is what datetime.now() returns.                 *)

\* how many calls of _check_rate_limit a run makes
MaxChecks == 3

SecondsPerDay == 24 * 3600

RatePlatforms == {"reddit", "steam", "gamefaqs"}

\* lines 61-65: every platform starts with no call, at the time of construction
InitialLimits == [p \in RatePlatforms |-> [calls |-> 0, reset_time |-> 0]]

\* the limits and windows the calls pass
Limits == {1, 2}
Windows == {60}

\* how far the clock moves between two calls: within the window, to its
\* end, a whole day, and a day and five seconds
Durations == {1, 60, SecondsPerDay, SecondsPerDay + 5}

\* timedelta.seconds: the seconds of a difference without its whole days
TimedeltaSeconds(delta) == delta % SecondsPerDay

\* the variant that, after the sleep, leaves the counter as it was
check_rate_limit_no_restart(info, t, limit, window) ==
    LET expired == TimedeltaSeconds(t - info.reset_time) >= window
        opened == IF expired THEN [calls |-> 0, reset_time |-> t] ELSE info
        sleep_time == window - TimedeltaSeconds(t - opened.reset_time)
        sleeps == opened.calls >= limit /\ sleep_time > 0
        woke == IF sleeps THEN t + sleep_time ELSE t
    IN  [info |-> [calls |-> opened.calls + 1,
                   reset_time |-> IF sleeps THEN woke ELSE opened.reset_time],
         reset |-> expired,
         slept |-> IF sleeps THEN sleep_time ELSE 0,
         returned |-> woke]

\* lines 278-295 on the entry info of one platform, entered at time t: the
\* entry it leaves, whether the window was reset, how long the call slept,
\* and the time at which it returns (time.sleep returns on time)
check_rate_limit(info, t, limit, window) ==
    LET expired == TimedeltaSeconds(t - info.reset_time) >= window
        opened == IF expired THEN [calls |-> 0, reset_time |-> t] ELSE info
        sleep_time == window - TimedeltaSeconds(t - opened.reset_time)
        sleeps == opened.calls >= limit /\ sleep_time > 0
        woke == IF sleeps THEN t + sleep_time ELSE t
        rested == IF sleeps THEN [calls |-> 0, reset_time |-> woke] ELSE opened
    IN  [info |-> [rested EXCEPT !.calls = rested.calls + 1],
         reset |-> expired,
         slept |-> IF sleeps THEN sleep_time ELSE 0,
         returned |-> woke]

\* the clock advances between two calls
Advance ==
    /\ ticks < MaxTicks
    /\ \E d \in Durations : seconds' = seconds + d
    /\ ticks' = ticks + 1
    /\ UNCHANGED <<now, rec, calls, solutions, pc, metrics_list, ranked, idx, cur, raised, rate_limits>>

\* one call of _check_rate_limit(platform, limit, window)
CheckRateLimit ==
    /\ Len(calls) < MaxChecks
    /\ \E platform \in RatePlatforms, limit \in Limits, window \in Windows :
          LET out == check_rate_limit(rate_limits[platform], seconds, limit, window)
          IN  /\ rate_limits' = [rate_limits EXCEPT ![platform] = out.info]
              /\ seconds' = out.returned
              /\ calls' = Append(calls,
                    [platform |-> platform, limit |-> limit, window |-> window,
                     at |-> seconds,
                     waited |-> seconds - rate_limits[platform].reset_time,
                     before |-> rate_limits,
                     reset |-> out.reset, slept |-> out.slept,
                     returned |-> out.returned,
                     after |-> rate_limits'])
    /\ UNCHANGED <<now, ticks, rec, solutions, pc, metrics_list, ranked, idx, cur, raised>>

InitRate ==
    /\ now = 0
    /\ ticks = 0
    /\ rec = SolutionMetrics
    /\ calls = <<>>
    /\ solutions = <<>>
    /\ pc = "idle"
    /\ metrics_list = <<>>
    /\ ranked = <<>>
    /\ idx = 0
    /\ cur = NoLocals
    /\ raised = "none"
    /\ seconds = 0
    /\ rate_limits = InitialLimits

NextRate == Advance \/ CheckRateLimit

SpecRate == InitRate /\ [][NextRate]_vars

\* call k found the counter of its platform at the limit: its window was
\* not reset and the counter had reached the limit
FoundAtLimit(k) ==
    /\ ~calls[k].reset
    /\ calls[k].before[calls[k].platform].calls >= calls[k].limit

C30_ExpiredWindowResets ==
    \A k \in 1..Len(calls) :
        calls[k].waited >= calls[k].window =>
            /\ calls[k].reset
            /\ calls[k].slept = 0
            /\ calls[k].after[calls[k].platform]
                 = [calls |-> 1, reset_time |-> calls[k].at]

====
